---- MODULE Spec2Model ----
(***************************************************************************)
(* A model of robskie/hyb: the Builder (Add, Delete, Build), the Index     *)
(* (Search, search, intersect, merge, filter, continuation, getWordRange,  *)
(* calcLen) and the Result views (Hits, TopHits, Completions,              *)
(* TopCompletions).                                                        *)
(*                                                                         *)
(* Strings are sequences of bytes (0..255) compared byte-wise, as Go       *)
(* compares strings.  Go slices are 0-based; the sequences here are        *)
(* 1-based, so element i of a Go slice is element i+1 of its sequence.     *)
(* Word-ids, block boundaries, ranks and doc-ids keep their Go values.     *)
(***************************************************************************)
EXTENDS Integers, Sequences, FiniteSets, Bags, TLC

(***************************************************************************)
(* Bounds of the model.                                                    *)
(***************************************************************************)
\* Width of the unsigned integers of the index.  The code uses uint32; TLC's
\* integers are 32-bit signed, so the width is scaled down.  Every uint32
\* conversion of the code is a reduction modulo 2^UintBits here, and
\* math.MaxUint32 is 2^UintBits - 1.
UintBits == 3
\* Number of postings per chunk.  The code uses 2048 (builder.go:291,
\* part_000:559); the chunking depends only on the size being positive, and
\* a small size lets chunk boundaries fall inside the blocks of the model.
ChunkSize == 2
\* The length of the longest posting array merge is called with.
MaxMergeLen == 2
\* The number of posting arrays merge is called with.
MaxMergeArrays == 3
\* The number of tokens of the queries continuation is called with.
MaxQueryLen == 3
\* The number of words of the lists getWordRange is called with.
MaxWords == 3
\* The arguments given to TopHits and TopCompletions: 0..MaxK.
MaxK == 3
\* Number of Add and Delete calls before Build.
MaxOps == 2
\* Number of Search calls on the Result.
MaxSearches == 2
\* The number of Search calls made with ByteQueries.
MaxByteSearches == 3

\* const nblocks = 5
nblocks == 5

Nil == [nil |-> TRUE]
\* A nil *[2]uint32.
NilRange == <<>>
\* A nil []completion.
NilSlice == [nil |-> TRUE, off |-> 0, len |-> 0]

MaxUint32 == (2 ^ UintBits) - 1

\* uint32(x)
U32(x) == x % (2 ^ UintBits)

Min(a, b) == IF a < b THEN a ELSE b

SetMax(S) == CHOOSE x \in S : \A y \in S : y <= x

SetMin(S) == CHOOSE x \in S : \A y \in S : x <= y

Range(s) == {s[i] : i \in DOMAIN s}

(***************************************************************************)
(* Strings.                                                                *)
(***************************************************************************)
\* a < b for Go strings: byte-wise lexicographic order.
StrLess(a, b) ==
    LET n == Min(Len(a), Len(b))
        d == {i \in 1..n : a[i] # b[i]}
    IN IF d = {} THEN Len(a) < Len(b) ELSE a[SetMin(d)] < b[SetMin(d)]

StrLeq(a, b) == a = b \/ StrLess(a, b)

\* strings.HasPrefix(s, prefix)
HasPrefix(s, prefix) ==
    /\ Len(prefix) <= Len(s)
    /\ SubSeq(s, 1, Len(prefix)) = prefix

\* string(utf8.MaxRune): U+10FFFF encoded in UTF-8.
MaxRuneString == <<244, 143, 191, 191>>

(***************************************************************************)
(* sort.Sort.  For fewer than 12 elements sort.Sort is an insertion sort:  *)
(* element i moves left while it is Less than its left neighbour.  Every   *)
(* slice the model sorts is shorter than that.                             *)
(***************************************************************************)
insertionSort(s, Less(_, _)) ==
    LET ins(sorted, x) ==
            LET stops == {j \in 1..Len(sorted) : ~Less(x, sorted[j])}
                p == IF stops = {} THEN 0 ELSE SetMax(stops)
            IN SubSeq(sorted, 1, p) \o <<x>> \o SubSeq(sorted, p + 1, Len(sorted))
        f[i \in 0..Len(s)] == IF i = 0 THEN <<>> ELSE ins(f[i - 1], s[i])
    IN f[Len(s)]

\* sort.Strings
sortStrings(s) == insertionSort(s, StrLess)

(***************************************************************************)
(* container/heap on a slice of [key, val] records ordered by key: the     *)
(* Less of mergeHeap (value), postHeap (rank) and compHeap (hits) each     *)
(* compare one integer field, which is the key.                            *)
(***************************************************************************)
Swap(h, i, j) ==
    [k \in 1..Len(h) |-> IF k = i THEN h[j] ELSE IF k = j THEN h[i] ELSE h[k]]

RECURSIVE heapUp(_, _)
\* heap.up(h, j), j 1-based; the parent of j is j \div 2.
heapUp(h, j) ==
    IF j <= 1 THEN h
    ELSE LET i == j \div 2
         IN IF ~(h[j].key < h[i].key) THEN h
            ELSE heapUp(Swap(h, i, j), i)

RECURSIVE heapDown(_, _, _)
\* heap.down(h, i, n), i 1-based, over the first n elements.
heapDown(h, i, n) ==
    LET j1 == 2 * i
    IN IF j1 > n THEN h
       ELSE LET j == IF j1 + 1 <= n /\ h[j1 + 1].key < h[j1].key
                     THEN j1 + 1 ELSE j1
            IN IF ~(h[j].key < h[i].key) THEN h
               ELSE heapDown(Swap(h, i, j), j, n)

\* heap.Init(h)
heapInit(h) ==
    LET n == Len(h)
        f[k \in 0..(n \div 2)] ==
            IF k = 0 THEN h ELSE heapDown(f[k - 1], (n \div 2) - k + 1, n)
    IN f[n \div 2]

\* heap.Push(h, x)
heapPush(h, x) == heapUp(Append(h, x), Len(h) + 1)

\* heap.Pop(h): the heap left, and the element removed.
heapPop(h) ==
    LET n == Len(h)
        d == heapDown(Swap(h, 1, n), 1, n - 1)
    IN [heap |-> SubSeq(d, 1, n - 1), elem |-> d[n]]

(***************************************************************************)
(* bp128, the integer codec the index stores its arrays with.  DeltaPack   *)
(* stores the differences of successive values and Pack the values with    *)
(* the bit width they need; Unpack restores the array.                     *)
(***************************************************************************)
RECURSIVE bitsOf(_)
bitsOf(x) == IF x = 0 THEN 0 ELSE 1 + bitsOf(x \div 2)

\* bp128.DeltaPack(in)
DeltaPack(in) ==
    [delta |-> TRUE,
     bits  |-> UintBits,
     vals  |-> [i \in 1..Len(in) |-> U32(in[i] - (IF i = 1 THEN 0 ELSE in[i - 1]))]]

\* bp128.Pack(in)
Pack(in) ==
    [delta |-> FALSE,
     bits  |-> IF in = <<>> THEN 0 ELSE SetMax({bitsOf(in[i]) : i \in 1..Len(in)}),
     vals  |-> in]

\* bp128.Unpack(in, &out)
Unpack(in) ==
    IF ~in.delta THEN in.vals
    ELSE LET f[i \in 0..Len(in.vals)] ==
                 IF i = 0 THEN 0 ELSE U32(f[i - 1] + in.vals[i])
         IN [i \in 1..Len(in.vals) |-> f[i]]

(***************************************************************************)
(* Builder.                                                                *)
(***************************************************************************)
\* An order by descending rank.
byRankLessDescending(a, b) == a.rank > b.rank

\* byRank.Less
byRankLess(a, b) == a.rank < b.rank

\* An order by ascending id and ascending counter: the oldest record of an
\* id comes first.
byIDLessOldestFirst(a, b) ==
    IF a.id # b.id THEN a.id < b.id ELSE a.count < b.count

\* byID.Less
byIDLess(a, b) == IF a.id # b.id THEN a.id < b.id ELSE a.count > b.count

\* byFrequency.Less
byFrequencyLess(a, b) == a.freq > b.freq

\* byLen.Less
byLenLess(a, b) == a.length > b.length

\* The orders sort.Sort(byRank(b.docs)) can leave b.docs in: sort.Sort is not
\* a stable sort, so records of equal rank may end in any order.
byRankOrders(ds) ==
    LET n == Len(ds)
        perms == {p \in [1..n -> 1..n] : \A i, j \in 1..n : i # j => p[i] # p[j]}
    IN {[i \in 1..n |-> ds[p[i]]] : p \in
           {q \in perms : \A i \in 1..(n - 1) : ~byRankLess(ds[q[i + 1]], ds[q[i]])}}

\* Build, "Normalize ranks": each record's rank becomes its position.
normalizeRanks(ds) == [i \in 1..Len(ds) |-> [ds[i] EXCEPT !.rank = i - 1]]

\* A walk that keeps every record that is not deleted, whatever record of
\* the same id came before it.
survivingNotDeleted(ds) == SelectSeq(ds, LAMBDA d : ~d.deleted)

\* Build, "Remove duplicates and deleted docs": the records the walk keeps,
\* in order.  pid starts at -1 and follows the id of every record walked.
surviving(ds) ==
    LET pid(i) == IF i = 1 THEN -1 ELSE ds[i - 1].id
        f[i \in 0..Len(ds)] ==
            IF i = 0 THEN <<>>
            ELSE IF pid(i) # ds[i].id /\ ~ds[i].deleted
                 THEN Append(f[i - 1], ds[i])
                 ELSE f[i - 1]
    IN f[Len(ds)]

\* Build, "Create postings": one bposting per keyword occurrence of each
\* surviving record, in order.
createPostings(ds) ==
    LET of(d) == [j \in 1..Len(d.words) |->
                     [id |-> d.id, word |-> d.words[j], rank |-> d.rank]]
        f[i \in 0..Len(ds)] ==
            IF i = 0 THEN <<>> ELSE f[i - 1] \o of(ds[i])
    IN f[Len(ds)]

\* wordmap[w].freq after the walk: the number of postings of w.
wordFreq(posts, w) == Cardinality({i \in 1..Len(posts) : posts[i].word = w})

\* Build, "Create words array and sort in lexicographical order".
createWords(posts) ==
    LET f[i \in 0..Len(posts)] ==
            IF i = 0 THEN <<>>
            ELSE IF posts[i].word \in Range(f[i - 1])
                 THEN f[i - 1]
                 ELSE Append(f[i - 1], posts[i].word)
    IN sortStrings(f[Len(posts)])

\* wordmap[w].id: the position of w in words.
wordID(words, w) == (CHOOSE i \in 1..Len(words) : words[i] = w) - 1

\* Build, "Create frequency-word map": the word records sorted by
\* descending frequency.
createWfreqs(words, posts) ==
    insertionSort([i \in 1..Len(words) |->
                      [id |-> i - 1, freq |-> wordFreq(posts, words[i])]],
                  byFrequencyLess)

\* wordmap[w].freq after "wf.freq = i": the position of word id in wfreqs.
wordFreqIdx(wfreqs, id) == (CHOOSE i \in 1..Len(wfreqs) : wfreqs[i].id = id) - 1

\* getCharFreq.  charfreq has 256 rows of cavg columns; rows holds the rows of
\* the bytes that occur in words, and every other row is zero (charFreqAt).
\* ok is FALSE when w[0] is out of range (an empty word).
getCharFreq(words, freqs, cavg) ==
    LET used == UNION {Range(words[i]) : i \in 1..Len(words)}
        sumOf(S) ==
            LET RECURSIVE acc(_)
                acc(T) == IF T = {} THEN 0
                          ELSE LET i == SetMin(T) IN freqs[i] + acc(T \ {i})
            IN acc(S)
        col0(c) ==
            LET S == {i \in 1..Len(words) : words[i][1] = c}
                f[k \in 0..Len(words)] ==
                    IF k = 0 THEN 0
                    ELSE IF k \in S THEN U32(f[k - 1] + U32(freqs[k])) ELSE f[k - 1]
            IN f[Len(words)]
        ctmp(i, c, p) ==
            sumOf({j \in 1..Len(words) :
                      i < Len(words[j]) /\ words[j][i + 1] = c /\ words[j][i] = p})
        col(i, c) == U32(SetMax({0} \cup {ctmp(i, c, p) : p \in used}))
    IN IF \E i \in 1..Len(words) : Len(words[i]) = 0
       THEN [ok |-> FALSE, cmax |-> cavg, rows |-> <<>>]
       ELSE [ok   |-> TRUE,
             cmax |-> cavg,
             rows |-> [c \in used |->
                          [i \in 1..cavg |-> IF i = 1 THEN col0(c) ELSE col(i - 1, c)]]]

\* charfreq[c][i], i 0-based
charFreqAt(charfreq, c, i) ==
    IF c \in DOMAIN charfreq.rows THEN charfreq.rows[c][i + 1] ELSE 0

\* A walk that closes a block as soon as it is full, whether or not the
\* word shares the prefix of the word before it.
createBlocksWalkAnyCut(blockSize, words, freqs, cavg) ==
    LET step(st, i) ==
            LET prev == IF i = 0 THEN 0 ELSE i - 1
                cut(j) == st.sum[j + 1] >= blockSize
            IN [sum    |-> [j \in 1..cavg |->
                               (IF cut(j - 1) THEN 0 ELSE st.sum[j]) + freqs[i + 1]],
                start  |-> [j \in 1..cavg |->
                               IF cut(j - 1) THEN i ELSE st.start[j]],
                blocks |-> [j \in 1..cavg |->
                               IF cut(j - 1)
                               THEN Append(st.blocks[j],
                                           [posts    |-> <<>>,
                                            boundary |-> <<st.start[j], prev>>,
                                            index    |-> 0,
                                            length   |-> st.sum[j]])
                               ELSE st.blocks[j]]]
        f[i \in 0..Len(words)] ==
            IF i = 0
            THEN [sum    |-> [j \in 1..cavg |-> 0],
                  start  |-> [j \in 1..cavg |-> 0],
                  blocks |-> [j \in 1..cavg |-> <<>>]]
            ELSE step(f[i - 1], i - 1)
    IN f[Len(words)]

\* createBlocks, the loop over words: the candidate blocks of every depth j
\* after the words before word i (0-based) were walked.
createBlocksWalk(blockSize, words, freqs, cavg) ==
    LET step(st, i) ==
            LET prev == IF i = 0 THEN 0 ELSE i - 1
                pw == words[prev + 1]
                w == words[i + 1]
                minlen == Min(Len(pw), Len(w))
                prefix[j \in 0..(cavg - 1)] ==
                    /\ (j = 0 \/ prefix[j - 1])
                    /\ ~(j >= minlen \/ pw[j + 1] # w[j + 1])
                cut(j) == st.sum[j + 1] >= blockSize /\ ~prefix[j]
            IN [sum    |-> [j \in 1..cavg |->
                               (IF cut(j - 1) THEN 0 ELSE st.sum[j]) + freqs[i + 1]],
                start  |-> [j \in 1..cavg |->
                               IF cut(j - 1) THEN i ELSE st.start[j]],
                blocks |-> [j \in 1..cavg |->
                               IF cut(j - 1)
                               THEN Append(st.blocks[j],
                                           [posts    |-> <<>>,
                                            boundary |-> <<st.start[j], prev>>,
                                            index    |-> 0,
                                            length   |-> st.sum[j]])
                               ELSE st.blocks[j]]]
        f[i \in 0..Len(words)] ==
            IF i = 0
            THEN [sum    |-> [j \in 1..cavg |-> 0],
                  start  |-> [j \in 1..cavg |-> 0],
                  blocks |-> [j \in 1..cavg |-> <<>>]]
            ELSE step(f[i - 1], i - 1)
    IN f[Len(words)]

\* A createBlocks whose last block of every depth starts at word 0.
createBlocksLastFromZero(blockSize, words, freqs, cavg) ==
    LET st == createBlocksWalk(blockSize, words, freqs, cavg)
        lastw == Len(words) - 1
        blocks == [j \in 1..cavg |->
                      Append(st.blocks[j],
                             [posts    |-> <<>>,
                              boundary |-> <<0, lastw>>,
                              index    |-> 0,
                              length   |-> st.sum[j]])]
        deep == {j \in 1..cavg : Len(blocks[j]) >= nblocks}
    IN IF deep = {} THEN blocks[1] ELSE blocks[SetMin(deep)]

\* createBlocks, "Process the last block": the blocks of every depth.
lastBlocks(blockSize, words, freqs, cavg) ==
    LET st == createBlocksWalk(blockSize, words, freqs, cavg)
        lastw == Len(words) - 1
    IN [j \in 1..cavg |->
           Append(st.blocks[j],
                  [posts    |-> <<>>,
                   boundary |-> <<st.start[j], lastw>>,
                   index    |-> 0,
                   length   |-> st.sum[j]])]

\* createBlocks, the choice of the depth (0-based): the first depth with at
\* least nblocks blocks, or else depth 0.
blockDepth(blockSize, words, freqs, cavg) ==
    LET blocks == lastBlocks(blockSize, words, freqs, cavg)
        deep == {j \in 1..cavg : Len(blocks[j]) >= nblocks}
    IN IF deep = {} THEN 0 ELSE SetMin(deep) - 1

\* createBlocks: the blocks of the depth chosen.
createBlocks(blockSize, words, freqs, cavg) ==
    lastBlocks(blockSize, words, freqs, cavg)
        [blockDepth(blockSize, words, freqs, cavg) + 1]

\* createBlocks, mapFunc: the index of the first block of cblk (the blocks
\* sorted by descending length) whose boundary holds w, or -1.
wordBlock(blk, w) ==
    LET cblk == insertionSort([i \in 1..Len(blk) |-> [blk[i] EXCEPT !.index = i - 1]],
                              byLenLess)
        hit == {i \in 1..Len(cblk) :
                   w >= cblk[i].boundary[1] /\ w <= cblk[i].boundary[2]}
    IN IF hit = {} THEN -1 ELSE cblk[SetMin(hit)].index

\* Build, "Put postings to blocks": the postings of block bidx (0-based).
blockPosts(blk, posts, words, bidx) ==
    SelectSeq(posts, LAMBDA p : wordBlock(blk, wordID(words, p.word)) = bidx)

\* Build, "Compress blocks": the packed block of blk with its postings.
compressBlock(blk, bposts, words, wfreqs) ==
    LET pids   == [j \in 1..blk.length |->
                      IF j <= Len(bposts) THEN U32(bposts[j].id) ELSE 0]
        pranks == [j \in 1..blk.length |->
                      IF j <= Len(bposts) THEN U32(bposts[j].rank) ELSE 0]
        pwords == [j \in 1..blk.length |->
                      IF j <= Len(bposts)
                      THEN U32(wordFreqIdx(wfreqs, wordID(words, bposts[j].word)))
                      ELSE 0]
        nchunks == (blk.length \div ChunkSize)
                   + (IF blk.length % ChunkSize > 0 THEN 1 ELSE 0)
        chunk(k) ==
            LET start == k * ChunkSize
                end == Min(start + ChunkSize, blk.length)
            IN [ids       |-> DeltaPack(SubSeq(pids, start + 1, end)),
                words     |-> Pack(SubSeq(pwords, start + 1, end)),
                ranks     |-> Pack(SubSeq(pranks, start + 1, end)),
                iboundary |-> pids[end]]
    IN [posts     |-> [k \in 1..nchunks |-> chunk(k - 1)],
        length    |-> blk.length,
        boundary  |-> blk.boundary,
        wboundary |-> <<words[blk.boundary[1] + 1], words[blk.boundary[2] + 1]>>]

\* Build, "Create frequency-word map": freqs[id] is the number of postings
\* of the word id.
wordFreqs(words, posts) == [i \in 1..Len(words) |-> wordFreq(posts, words[i])]

\* Build, cavg: half the average length of the words, plus one.
charAvg(words) ==
    LET f[i \in 0..Len(words)] == IF i = 0 THEN 0 ELSE f[i - 1] + Len(words[i])
    IN ((f[Len(words)] \div Len(words)) \div 2) + 1

\* Build, blockSize
blockSizeOf(wordcount) == (wordcount \div nblocks) + 1

\* &Index{}
EmptyIndex ==
    [blocks |-> <<>>, words |-> <<>>, freqword |-> <<>>,
     charfreq |-> [ok |-> TRUE, cmax |-> 0, rows |-> <<>>], size |-> 0]

\* Builder.Build on the records in the order sort.Sort(byRank) left them:
\* the builder's docs afterwards, whether Build returned (ok) or panicked,
\* and the index returned.
Build(ranked) ==
    LET sorted == insertionSort(normalizeRanks(ranked), byIDLess)
        ds == surviving(sorted)
        posts == createPostings(ds)
        words == createWords(posts)
        wfreqs == createWfreqs(words, posts)
        freqword == [i \in 1..Len(wfreqs) |-> U32(wfreqs[i].id)]
        freqs == wordFreqs(words, posts)
        wordcount == Len(posts)
        cavg == charAvg(words)
        charfreq == getCharFreq(words, freqs, cavg)
        blockSize == blockSizeOf(wordcount)
        blk == createBlocks(blockSize, words, freqs, cavg)
        routed == \A i \in 1..Len(posts) :
                      wordBlock(blk, wordID(words, posts[i].word)) >= 0
        bposts(i) == blockPosts(blk, posts, words, i - 1)
        fits == \A i \in 1..Len(blk) : Len(bposts(i)) <= blk[i].length
    IN IF Len(posts) = 0
       THEN [ok |-> TRUE, docs |-> ds, index |-> EmptyIndex]
       ELSE IF ~charfreq.ok \/ ~routed \/ ~fits
       THEN [ok |-> FALSE, docs |-> ds, index |-> Nil]
       ELSE [ok    |-> TRUE,
             docs  |-> ds,
             index |-> [blocks   |-> [i \in 1..Len(blk) |->
                                         compressBlock(blk[i], bposts(i), words, wfreqs)],
                        words    |-> words,
                        freqword |-> freqword,
                        charfreq |-> charfreq,
                        size     |-> 0]]

(***************************************************************************)
(* Result.  results is the posting sequence.  compbuf is the backing array *)
(* of the completions up to its capacity (arr) with the length of the      *)
(* slice (len); completions is nil or the window [off, len] of compbuf.arr *)
(* the slice covers, so its capacity is Len(compbuf.arr) - off.            *)
(***************************************************************************)
\* &Result{}
EmptyResult ==
    [query |-> <<>>, results |-> <<>>, words |-> <<>>, wrange |-> NilRange,
     completions |-> NilSlice, compbuf |-> [len |-> 0, arr |-> <<>>]]

\* Result.clear
clear(r) ==
    [r EXCEPT !.results = <<>>, !.wrange = NilRange, !.completions = NilSlice]

\* r.completions as a sequence of completion records.
completionsOf(r) ==
    IF r.completions.nil THEN <<>>
    ELSE SubSeq(r.compbuf.arr, r.completions.off + 1,
                r.completions.off + r.completions.len)

(***************************************************************************)
(* Index.                                                                  *)
(***************************************************************************)
\* A continuation that compares the lengths of the queries only.
continuationLengthOnly(prev, curr) ==
    IF Len(prev) > Len(curr) \/ Len(prev) = 0 THEN [cont |-> FALSE, query |-> curr]
    ELSE [cont |-> TRUE, query |-> SubSeq(curr, Len(prev) + 1, Len(curr))]

\* continuation(prev, curr): whether curr continues prev, and the tokens to
\* search for.
continuation(prev, curr) ==
    LET step(st, i) ==
            IF st.stop THEN st
            ELSE IF HasPrefix(curr[i + 1], prev[i + 1])
                 THEN [st EXCEPT
                          !.query = IF curr[i + 1] # prev[i + 1]
                                    THEN SubSeq(curr, i + 1, Len(curr)) ELSE @,
                          !.count = @ + 1]
                 ELSE [st EXCEPT !.stop = TRUE]
        f[i \in 0..Len(prev)] ==
            IF i = 0
            THEN [query |-> SubSeq(curr, Len(prev) + 1, Len(curr)),
                  count |-> 0, stop |-> FALSE]
            ELSE step(f[i - 1], i - 1)
    IN IF Len(prev) > Len(curr) THEN [cont |-> FALSE, query |-> curr]
       ELSE IF Len(prev) = 0 THEN [cont |-> FALSE, query |-> curr]
       ELSE IF f[Len(prev)].count = Len(prev)
            THEN [cont |-> TRUE, query |-> f[Len(prev)].query]
            ELSE [cont |-> FALSE, query |-> curr]

\* sort.SearchStrings(a, x) on a sorted slice: the smallest index i
\* (0-based) with a[i] >= x, or len(a).
SearchStrings(a, x) ==
    LET ge == {i \in 1..Len(a) : ~StrLess(a[i], x)}
    IN IF ge = {} THEN Len(a) ELSE SetMin(ge) - 1

\* getWordRange(query, words, offset): nil, or the word range <<w0, w1>>.
getWordRange(query, words, offset) ==
    LET ws == SubSeq(words, offset + 1, Len(words))
        rstart == SearchStrings(ws, query)
        rend == rstart
                + SearchStrings(SubSeq(ws, rstart + 1, Len(ws)), query \o MaxRuneString)
                - 1
    IN IF rstart = Len(ws) \/ ~HasPrefix(ws[rstart + 1], query) THEN NilRange
       ELSE <<U32(rstart + offset), U32(rend + offset)>>

\* calcLen(query, charfreq)
calcLen(query, charfreq) ==
    LET cmax == charfreq.cmax
        n == Min(Len(query), cmax)
        f[i \in 0..n] ==
            IF i = 0 THEN MaxUint32
            ELSE LET cf == charFreqAt(charfreq, query[i], i - 1)
                 IN IF f[i - 1] > cf THEN cf ELSE f[i - 1]
    IN f[n]

\* filter(posts, wrange)
filter(posts, wrange) ==
    IF wrange = NilRange THEN <<>>
    ELSE SelectSeq(posts, LAMBDA p : p.word >= wrange[1] /\ p.word <= wrange[2])

\* intersect, one posting of a chunk that is in the word range: the posting
\* is emitted and its completion counted unless it repeats the pair
\* (pid, pwid) emitted last.  comps[wid-wrange[0]] out of range is a panic.
emit(st, id, wid, rank, wrange) ==
    LET c == U32(wid - wrange[1])
        new == st.pid # id \/ st.pwid # wid
    IN IF new /\ c >= Len(st.comps) THEN [st EXCEPT !.ok = FALSE]
       ELSE [st EXCEPT
                !.out = Append(@, [id |-> id, word |-> wid, rank |-> rank]),
                !.comps = IF new
                          THEN [k \in 1..Len(st.comps) |->
                                   IF k = c + 1
                                   THEN [st.comps[k] EXCEPT !.hits = @ + 1]
                                   ELSE st.comps[k]]
                          ELSE @,
                !.pid = id,
                !.pwid = wid]

RECURSIVE intersectResults(_, _, _, _, _, _, _)
\* intersect, the loop over a chunk when there are prior results: a sorted
\* merge of results (cursor i) with the chunk's ids (cursor j).
intersectResults(st, results, ids, words, ranks, wrange, freqword) ==
    IF ~st.ok \/ ~(st.i < Len(results) /\ st.j < Len(ids)) THEN st
    ELSE LET jid == ids[st.j + 1]
             rid == results[st.i + 1].id
             wid == freqword[words[st.j + 1] + 1]
         IN IF rid < jid
            THEN intersectResults([st EXCEPT !.i = @ + 1],
                                  results, ids, words, ranks, wrange, freqword)
            ELSE IF rid > jid
            THEN intersectResults([st EXCEPT !.j = @ + 1],
                                  results, ids, words, ranks, wrange, freqword)
            ELSE IF wid >= wrange[1] /\ wid <= wrange[2]
            THEN intersectResults(
                     [emit(st, rid, wid, ranks[st.j + 1], wrange) EXCEPT !.j = @ + 1],
                     results, ids, words, ranks, wrange, freqword)
            ELSE intersectResults([st EXCEPT !.j = @ + 1],
                                  results, ids, words, ranks, wrange, freqword)

\* intersect, the loop over a chunk when there are no prior results.
intersectAll(st, ids, words, ranks, wrange, freqword) ==
    LET f[j \in 0..Len(words)] ==
            IF j = 0 THEN st
            ELSE LET wid == freqword[words[j] + 1]
                 IN IF ~f[j - 1].ok THEN f[j - 1]
                    ELSE IF wid >= wrange[1] /\ wid <= wrange[2]
                    THEN emit(f[j - 1], ids[j], wid, ranks[j], wrange)
                    ELSE f[j - 1]
    IN f[Len(words)]

\* An intersect that skips a chunk also when its id boundary equals the id
\* of the current result.
intersectSkipAtBoundary(results, comps, cout, block, wrange, freqword) ==
    LET chunk(st, p) ==
            IF ~st.ok \/ st.stop THEN st
            ELSE IF Len(results) > 0 /\ st.i >= Len(results)
            THEN [st EXCEPT !.stop = TRUE]
            ELSE IF Len(results) > 0 /\ results[st.i + 1].id >= p.iboundary
            THEN st
            ELSE LET ids == Unpack(p.ids)
                     words == Unpack(p.words)
                     ranks == Unpack(p.ranks)
                     st0 == [st EXCEPT !.j = 0, !.pid = MaxUint32, !.pwid = MaxUint32]
                 IN IF Len(results) > 0
                    THEN intersectResults(st0, results, ids, words, ranks,
                                          wrange, freqword)
                    ELSE intersectAll(st0, ids, words, ranks, wrange, freqword)
        f[k \in 0..Len(block.posts)] ==
            IF k = 0
            THEN [i |-> 0, j |-> 0, out |-> <<>>, comps |-> comps,
                  pid |-> MaxUint32, pwid |-> MaxUint32,
                  stop |-> FALSE, ok |-> TRUE]
            ELSE chunk(f[k - 1], block.posts[k])
    IN f[Len(block.posts)]

\* intersect(results, comps, cout, block, wrange, freqword): the postings of
\* the block emitted (out), the completions with their hits (comps), and
\* whether it returned (ok).  cout is the capacity out is made with; the
\* allocation is taken to succeed whatever the capacity, also for the
\* math.MaxUint32 that calcLen returns for an empty token.
intersect(results, comps, cout, block, wrange, freqword) ==
    LET chunk(st, p) ==
            IF ~st.ok \/ st.stop THEN st
            ELSE IF Len(results) > 0 /\ st.i >= Len(results)
            THEN [st EXCEPT !.stop = TRUE]
            ELSE IF Len(results) > 0 /\ results[st.i + 1].id > p.iboundary
            THEN st
            ELSE LET ids == Unpack(p.ids)
                     words == Unpack(p.words)
                     ranks == Unpack(p.ranks)
                     st0 == [st EXCEPT !.j = 0, !.pid = MaxUint32, !.pwid = MaxUint32]
                 IN IF Len(results) > 0
                    THEN intersectResults(st0, results, ids, words, ranks,
                                          wrange, freqword)
                    ELSE intersectAll(st0, ids, words, ranks, wrange, freqword)
        f[k \in 0..Len(block.posts)] ==
            IF k = 0
            THEN [i |-> 0, j |-> 0, out |-> <<>>, comps |-> comps,
                  pid |-> MaxUint32, pwid |-> MaxUint32,
                  stop |-> FALSE, ok |-> TRUE]
            ELSE chunk(f[k - 1], block.posts[k])
    IN f[Len(block.posts)]

RECURSIVE mergeLoop(_, _, _)
\* merge, "Perform k-way merge"
mergeLoop(h, out, posts) ==
    IF Len(h) = 0 THEN out
    ELSE LET po == heapPop(h)
             e == po.elem.val
             slice == posts[e.ptr]
             idx == e.idx + 1
         IN mergeLoop(
                IF idx < Len(slice)
                THEN heapPush(po.heap,
                              [key |-> slice[idx + 1].id,
                               val |-> [ptr |-> e.ptr, idx |-> idx]])
                ELSE po.heap,
                Append(out, slice[e.idx + 1]),
                posts)

\* A merge that appends the posting arrays one after another.
mergeConcat(results, posts) ==
    LET f[k \in 0..Len(posts)] == IF k = 0 THEN <<>> ELSE f[k - 1] \o posts[k]
    IN f[Len(posts)]

\* A merge without heap.Init: the elements are popped from the heap in the
\* order they were pushed in.
mergeNoInit(results, posts) ==
    IF Len(posts) = 1 THEN posts[1]
    ELSE mergeLoop([i \in 1..Len(posts) |->
                       [key |-> posts[i][1].id, val |-> [ptr |-> i, idx |-> 0]]],
                   <<>>, posts)

\* merge(results, posts): the new *results.
merge(results, posts) ==
    IF Len(posts) = 1 THEN posts[1]
    ELSE mergeLoop(heapInit([i \in 1..Len(posts) |->
                                [key |-> posts[i][1].id,
                                 val |-> [ptr |-> i, idx |-> 0]]]),
                   <<>>, posts)

\* append(compbuf, make([]completion, extension)...): within the capacity
\* the new elements overwrite the array in place; beyond it the array is
\* reallocated with the capacity doubled, or with the length needed when
\* that is more than double, and the elements past the old length are zero.
appendZeros(buf, extension) ==
    LET cap == Len(buf.arr)
        newLen == buf.len + extension
        newcap == IF newLen <= cap THEN cap
                  ELSE IF newLen > 2 * cap THEN newLen ELSE 2 * cap
        zero == [word |-> 0, hits |-> 0]
    IN [len |-> newLen,
        arr |-> [i \in 1..newcap |->
                    IF i <= buf.len THEN buf.arr[i]
                    ELSE IF i <= newLen \/ newLen > cap THEN zero
                    ELSE buf.arr[i]]]

\* A block selection with the first condition only: the blocks whose word
\* boundaries enclose the query.
queryBlocksEnclosing(idx, query) ==
    SelectSeq(idx.blocks,
              LAMBDA b : /\ StrLeq(b.wboundary[1], query)
                         /\ StrLeq(query, b.wboundary[2]))

\* Index.search, "Get blocks that contain the query"
queryBlocks(idx, query) ==
    SelectSeq(idx.blocks,
              LAMBDA b : \/ /\ StrLeq(b.wboundary[1], query)
                            /\ StrLeq(query, b.wboundary[2])
                         \/ HasPrefix(b.wboundary[1], query))

\* Index.search, "Intersect postings to blocks", one block: acc holds the
\* completions and the non-empty posting lists so far.
intersectBlock(acc, results, cout, block, wrange, freqword) ==
    LET collect(x) ==
            [ok       |-> x.ok,
             comps    |-> x.comps,
             postings |-> IF Len(x.out) > 0 THEN Append(acc.postings, x.out)
                          ELSE acc.postings]
    IN IF ~acc.ok THEN acc
       ELSE collect(intersect(results, acc.comps, cout, block, wrange, freqword))

\* Index.search, "Intersect postings to blocks"
intersectBlocks(results, comps, cout, blocks, wrange, freqword) ==
    LET f[k \in 0..Len(blocks)] ==
            IF k = 0 THEN [ok |-> TRUE, comps |-> comps, postings |-> <<>>]
            ELSE intersectBlock(f[k - 1], results, cout, blocks[k], wrange, freqword)
    IN f[Len(blocks)]

\* Index.search, the end: prev.completions = comps, and the merge.  The
\* completions are the first rlen elements of compbuf's array.
searchDone(prev, wrange, rlen, compbuf, fin) ==
    IF ~fin.ok THEN [ok |-> FALSE, r |-> prev]
    ELSE [ok |-> TRUE,
          r  |-> [prev EXCEPT
                     !.wrange = wrange,
                     !.compbuf = [len |-> compbuf.len,
                                  arr |-> fin.comps
                                          \o SubSeq(compbuf.arr, rlen + 1,
                                                    Len(compbuf.arr))],
                     !.completions = [nil |-> FALSE, off |-> 0, len |-> rlen],
                     !.results = merge(prev.results, fin.postings)]]

\* Index.search from "Extend completions buffer if necessary" on.
searchRange(idx, query, prev, blocks, wrange) ==
    LET rlen == U32(wrange[2] - wrange[1] + 1)
        extension == rlen - prev.compbuf.len
        comps == [i \in 1..rlen |-> [word |-> U32(wrange[1] + i - 1), hits |-> 0]]
        cout == IF Len(prev.results) = 0 THEN calcLen(query, idx.charfreq) ELSE 0
    IN IF wrange = NilRange THEN [ok |-> TRUE, r |-> clear(prev)]
       ELSE searchDone(prev, wrange, rlen,
                       IF extension > 0 THEN appendZeros(prev.compbuf, extension)
                       ELSE prev.compbuf,
                       intersectBlocks(prev.results, comps, cout, blocks, wrange,
                                       idx.freqword))

\* Index.search(query, prev): whether it returned (ok), and prev afterwards.
search(idx, query, prev) ==
    LET blocks == queryBlocks(idx, query)
    IN IF Len(blocks) = 0 THEN [ok |-> TRUE, r |-> clear(prev)]
       ELSE searchRange(idx, query, prev, blocks,
                        getWordRange(query, idx.words, blocks[1].boundary[1]))

\* Index.Search, the branch of the loop taken when the token continues
\* pquery: the word range is narrowed and the completions and results
\* filtered.  A nil prev.wrange, or a window past the capacity of
\* prev.completions, is a panic.
narrowTo(prev, wrange) ==
    LET start == IF wrange # NilRange THEN U32(wrange[1] - prev.wrange[1]) ELSE 0
        end == IF wrange # NilRange
               THEN U32(start + U32(wrange[2] - wrange[1] + 1)) ELSE 0
        off == prev.completions.off
        cap == IF prev.completions.nil THEN 0 ELSE Len(prev.compbuf.arr) - off
    IN IF ~(start <= end /\ end <= cap) THEN [ok |-> FALSE, r |-> prev]
       ELSE [ok |-> TRUE,
             r  |-> [prev EXCEPT
                        !.wrange = wrange,
                        !.completions = IF prev.completions.nil THEN NilSlice
                                        ELSE [nil |-> FALSE, off |-> off + start,
                                              len |-> end - start],
                        !.results = filter(prev.results, wrange)]]

narrow(idx, q, prev) ==
    IF prev.wrange = NilRange THEN [ok |-> FALSE, r |-> prev]
    ELSE narrowTo(prev, getWordRange(q, idx.words, prev.wrange[1]))

\* Index.Search, the end of one iteration of the loop: x is what the
\* branch taken left.
tokenDone(q, x) ==
    [ok |-> x.ok, r |-> x.r, pquery |-> q, stop |-> Len(x.r.results) = 0]

\* Index.Search, one iteration of the loop over cquery.
searchToken(idx, q, st) ==
    IF ~st.ok \/ st.stop THEN st
    ELSE IF Len(st.pquery) > 0 /\ HasPrefix(q, st.pquery)
    THEN tokenDone(q, narrow(idx, q, st.r))
    ELSE tokenDone(q, search(idx, q, st.r))

\* Index.Search, the loop over cquery.
searchTokens(idx, cquery, st) ==
    LET f[k \in 0..Len(cquery)] ==
            IF k = 0 THEN st ELSE searchToken(idx, cquery[k], f[k - 1])
    IN f[Len(cquery)]

\* Index.Search, the return: prev.query = query unless it panicked.
searchReturn(query, fin) ==
    IF ~fin.ok THEN [ok |-> FALSE, r |-> fin.r]
    ELSE [ok |-> TRUE, r |-> [fin.r EXCEPT !.query = query]]

\* Index.Search after continuation(prev.query, query) returned c.
searchFrom(idx, query, prev, c) ==
    IF c.cont /\ Len(prev.results) = 0 THEN [ok |-> TRUE, r |-> prev]
    ELSE searchReturn(
             query,
             searchTokens(idx, c.query,
                          [ok     |-> TRUE,
                           r      |-> IF c.cont THEN prev
                                      ELSE [clear(prev) EXCEPT !.words = idx.words],
                           pquery |-> IF c.cont THEN prev.query[Len(prev.query)]
                                      ELSE <<>>,
                           stop   |-> FALSE]))

\* Index.Search(query, prev): whether it returned (ok), and prev afterwards.
Search(idx, query, prev) ==
    searchFrom(idx, query, prev, continuation(prev.query, query))

(***************************************************************************)
(* Index.Search in steps, for the calls that run at the same time.  A call *)
(* is a record: where it is (pc), the query, the index and the Result as   *)
(* they were at the call (idx0 and r0), the Result now (r), the locals of  *)
(* Search (pquery, cquery and ti, the position in cquery) and, in f, the   *)
(* locals of search and intersect: the token q, the blocks and the         *)
(* position in them (bi), the position in the block's chunks (ci), wrange, *)
(* rlen, the extended compbuf, cout, the completions and posting lists     *)
(* collected so far (acc) and the cursors and output of intersect (st).    *)
(* A step reads the index and writes the call's own record; the one other  *)
(* memory it writes is the buffer intersect unpacks a chunk into.  The     *)
(* calls are interleaved at the chunks: between unpacking a chunk and      *)
(* scanning it, the other calls run.                                       *)
(***************************************************************************)
\* intersect, "i, j := 0, 0" and "out := make([]iposting, 0, cout)"
intersectStart(comps) ==
    [i |-> 0, j |-> 0, out |-> <<>>, comps |-> comps,
     pid |-> MaxUint32, pwid |-> MaxUint32, stop |-> FALSE, ok |-> TRUE]

\* The locals of search and intersect before search is called.
NoFrame ==
    [q |-> <<>>, blocks |-> <<>>, bi |-> 0, ci |-> 0, wrange |-> NilRange,
     rlen |-> 0, compbuf |-> [len |-> 0, arr |-> <<>>], cout |-> 0,
     acc |-> [ok |-> TRUE, comps |-> <<>>, postings |-> <<>>],
     st |-> intersectStart(<<>>)]

\* A Result no Search call is running with.
idleCall(r) ==
    [pc |-> "idle", idx0 |-> Nil, query |-> <<>>, r0 |-> r, r |-> r,
     pquery |-> <<>>, cquery |-> <<>>, ti |-> 0, f |-> NoFrame]

\* Index.Search, "prev.query = query" and the return.
searchReturned(p) == [p EXCEPT !.pc = "done", !.r.query = p.query]

\* Index.Search from its entry to the loop over cquery.
searchEnter(idx, query, p) ==
    LET prev == p.r
        c == continuation(prev.query, query)
    IN IF c.cont /\ Len(prev.results) = 0
       THEN [idleCall(prev) EXCEPT !.pc = "done", !.idx0 = idx,
                                   !.query = query]
       ELSE [idleCall(prev) EXCEPT
                !.pc = "token",
                !.idx0 = idx,
                !.query = query,
                !.r = IF c.cont THEN prev
                      ELSE [clear(prev) EXCEPT !.words = idx.words],
                !.pquery = IF c.cont THEN prev.query[Len(prev.query)] ELSE <<>>,
                !.cquery = c.query,
                !.ti = 1]

\* Index.Search, the end of one iteration of the loop: x is what the branch
\* taken left.  With no results the loop is left and Search returns.
afterToken(p, q, x) ==
    IF ~x.ok THEN [p EXCEPT !.pc = "panic", !.r = x.r]
    ELSE IF Len(x.r.results) = 0 THEN searchReturned([p EXCEPT !.r = x.r])
    ELSE [p EXCEPT !.pc = "token", !.r = x.r, !.pquery = q, !.ti = @ + 1]

\* Index.search up to "Intersect postings to blocks".
searchBegin(idx, p, q) ==
    LET prev == p.r
        blocks == queryBlocks(idx, q)
        wrange == getWordRange(q, idx.words, blocks[1].boundary[1])
        rlen == U32(wrange[2] - wrange[1] + 1)
        extension == rlen - prev.compbuf.len
    IN IF Len(blocks) = 0 THEN afterToken(p, q, [ok |-> TRUE, r |-> clear(prev)])
       ELSE IF wrange = NilRange
       THEN afterToken(p, q, [ok |-> TRUE, r |-> clear(prev)])
       ELSE [p EXCEPT
                !.pc = "block",
                !.f = [q       |-> q,
                       blocks  |-> blocks,
                       bi      |-> 1,
                       ci      |-> 0,
                       wrange  |-> wrange,
                       rlen    |-> rlen,
                       compbuf |-> IF extension > 0
                                   THEN appendZeros(prev.compbuf, extension)
                                   ELSE prev.compbuf,
                       cout    |-> IF Len(prev.results) = 0
                                   THEN calcLen(q, idx.charfreq) ELSE 0,
                       acc     |-> [ok       |-> TRUE,
                                    comps    |-> [i \in 1..rlen |->
                                                     [word |-> U32(wrange[1] + i - 1),
                                                      hits |-> 0]],
                                    postings |-> <<>>],
                       st      |-> intersectStart(<<>>)]]

\* Index.Search, the head of the loop over cquery and the branch on pquery.
tokenStep(idx, p) ==
    IF p.ti > Len(p.cquery) THEN searchReturned(p)
    ELSE IF Len(p.pquery) > 0 /\ HasPrefix(p.cquery[p.ti], p.pquery)
    THEN afterToken(p, p.cquery[p.ti], narrow(idx, p.cquery[p.ti], p.r))
    ELSE searchBegin(idx, p, p.cquery[p.ti])

\* Index.search, the head of the loop over blocks: the call of intersect
\* with the next block, or after the last block the merge and the return.
blockStep(p) ==
    IF p.f.bi > Len(p.f.blocks)
    THEN afterToken(p, p.f.q,
                    searchDone(p.r, p.f.wrange, p.f.rlen, p.f.compbuf, p.f.acc))
    ELSE [p EXCEPT !.pc = "chunk", !.f.ci = 1,
                   !.f.st = intersectStart(p.f.acc.comps)]

\* intersect, the head of the loop over block.posts: the return to search
\* after the last chunk or a break, the break, the continue, or the chunk
\* is to be unpacked (pc "scan").
chunkStep(p) ==
    LET f == p.f
        block == f.blocks[f.bi]
        results == p.r.results
    IN IF f.ci > Len(block.posts) \/ f.st.stop
       THEN [p EXCEPT
                !.pc = "block",
                !.f.bi = @ + 1,
                !.f.acc = [ok       |-> TRUE,
                           comps    |-> f.st.comps,
                           postings |-> IF Len(f.st.out) > 0
                                        THEN Append(f.acc.postings, f.st.out)
                                        ELSE f.acc.postings]]
       ELSE IF Len(results) > 0 /\ f.st.i >= Len(results)
       THEN [p EXCEPT !.f.st.stop = TRUE]
       ELSE IF Len(results) > 0 /\ results[f.st.i + 1].id > block.posts[f.ci].iboundary
       THEN [p EXCEPT !.f.ci = @ + 1]
       ELSE [p EXCEPT !.pc = "scan"]

\* bp128.Unpack of the three arrays of a chunk into ids, words and ranks.
unpackChunk(c) ==
    [ids |-> Unpack(c.ids), words |-> Unpack(c.words), ranks |-> Unpack(c.ranks)]

\* intersect, the loops over the unpacked chunk buf.
scanStep(p, buf, freqword) ==
    LET st0 == [p.f.st EXCEPT !.j = 0, !.pid = MaxUint32, !.pwid = MaxUint32]
        x == IF Len(p.r.results) > 0
             THEN intersectResults(st0, p.r.results, buf.ids, buf.words, buf.ranks,
                                   p.f.wrange, freqword)
             ELSE intersectAll(st0, buf.ids, buf.words, buf.ranks,
                               p.f.wrange, freqword)
    IN IF ~x.ok THEN [p EXCEPT !.pc = "panic"]
       ELSE [p EXCEPT !.pc = "chunk", !.f.st = x, !.f.ci = @ + 1]

RECURSIVE advance(_, _)
\* The steps of a call that touch its own record only, up to the next chunk
\* to scan or to the end of Search.
advance(idx, p) ==
    IF p.pc = "token" THEN advance(idx, tokenStep(idx, p))
    ELSE IF p.pc = "block" THEN advance(idx, blockStep(p))
    ELSE IF p.pc = "chunk" THEN advance(idx, chunkStep(p))
    ELSE p

\* A buffer kept with the Index: every call unpacks into the same one.
bufferOfIndex(g) == 1

\* intersect, "buffer := make([]uint32, (chunkSize+offset)*3)": the buffer
\* the call g unpacks into is its own.
bufferOf(g) == g

(***************************************************************************)
(* Serialization.  A gob stream is a sequence of numbers: an integer is    *)
(* one number, a string or a slice its length followed by its elements,    *)
(* and the bytes a GobEncode method returns their count followed by them.  *)
(* A decoder reads at a position pos of the stream and returns the value   *)
(* (v), the position after it, and whether the stream held one (ok).       *)
(***************************************************************************)
RECURSIVE gobConcatRange(_, _, _)
\* The elements lo to hi of ss one after another.
gobConcatRange(ss, lo, hi) ==
    IF lo > hi THEN <<>>
    ELSE IF lo = hi THEN ss[lo]
    ELSE gobConcatRange(ss, lo, (lo + hi) \div 2)
             \o gobConcatRange(ss, ((lo + hi) \div 2) + 1, hi)

gobConcat(ss) == gobConcatRange(ss, 1, Len(ss))

\* enc.Encode of a []uint32, a string or the bytes of a GobEncoder
gobSlice(xs) == <<Len(xs)>> \o xs

\* enc.Encode of a []string
gobStrings(ws) ==
    <<Len(ws)>> \o gobConcat([i \in 1..Len(ws) |-> gobSlice(ws[i])])

\* dec.Decode of an integer
decUint(s, pos) ==
    IF pos >= 1 /\ pos <= Len(s) THEN [ok |-> TRUE, v |-> s[pos], pos |-> pos + 1]
    ELSE [ok |-> FALSE, v |-> 0, pos |-> pos]

\* dec.Decode of a []uint32, a string or the bytes of a GobDecoder
decSlice(s, pos) ==
    IF pos >= 1 /\ pos <= Len(s) /\ pos + s[pos] <= Len(s)
    THEN [ok |-> TRUE, v |-> SubSeq(s, pos + 1, pos + s[pos]), pos |-> pos + s[pos] + 1]
    ELSE [ok |-> FALSE, v |-> <<>>, pos |-> pos]

\* m more elements of a slice read by decSlice, after those of st.
decRun(s, st, m) ==
    LET f[k \in 0..m] ==
            IF k = 0 THEN st
            ELSE LET p == f[k - 1]
                     e == decSlice(s, p.pos)
                 IN [ok |-> p.ok /\ e.ok, v |-> Append(p.v, e.v), pos |-> e.pos]
    IN f[m]

\* dec.Decode of a slice of n elements, each read by decSlice; the
\* elements are read in runs of 16.
decSlices(s, pos) ==
    LET n == decUint(s, pos)
        g[j \in 0..(n.v \div 16)] ==
            IF j = 0
            THEN decRun(s, [ok |-> n.ok, v |-> <<>>, pos |-> n.pos], n.v % 16)
            ELSE LET p == g[j - 1]
                 IN IF p.pos >= 0 THEN decRun(s, p, 16) ELSE p
    IN g[n.v \div 16]

\* bp128.PackedInts.GobEncode
packedGobEncode(p) == <<IF p.delta THEN 1 ELSE 0, p.bits>> \o gobSlice(p.vals)

\* bp128.PackedInts.GobDecode
packedGobDecode(data) ==
    LET delta == decUint(data, 1)
        bits == decUint(data, delta.pos)
        vals == decSlice(data, bits.pos)
    IN [ok |-> delta.ok /\ bits.ok /\ vals.ok,
        v  |-> [delta |-> delta.v = 1, bits |-> bits.v, vals |-> vals.v]]

\* cposting.GobEncode
cpostingGobEncode(p) ==
    gobSlice(packedGobEncode(p.ids)) \o gobSlice(packedGobEncode(p.words))
        \o gobSlice(packedGobEncode(p.ranks)) \o <<p.iboundary>>

\* A cposting.GobDecode that reads the ranks before the words.
cpostingGobDecodeRanksFirst(data) ==
    LET ids == decSlice(data, 1)
        ranks == decSlice(data, ids.pos)
        words == decSlice(data, ranks.pos)
        iboundary == decUint(data, words.pos)
    IN [ok |-> ids.ok /\ words.ok /\ ranks.ok /\ iboundary.ok,
        v  |-> [ids       |-> packedGobDecode(ids.v).v,
                words     |-> packedGobDecode(words.v).v,
                ranks     |-> packedGobDecode(ranks.v).v,
                iboundary |-> iboundary.v]]

\* cposting.GobDecode
cpostingGobDecode(data) ==
    LET ids == decSlice(data, 1)
        words == decSlice(data, ids.pos)
        ranks == decSlice(data, words.pos)
        iboundary == decUint(data, ranks.pos)
    IN [ok |-> /\ ids.ok /\ words.ok /\ ranks.ok /\ iboundary.ok
               /\ packedGobDecode(ids.v).ok /\ packedGobDecode(words.v).ok
               /\ packedGobDecode(ranks.v).ok,
        v  |-> [ids       |-> packedGobDecode(ids.v).v,
                words     |-> packedGobDecode(words.v).v,
                ranks     |-> packedGobDecode(ranks.v).v,
                iboundary |-> iboundary.v]]

\* pblock.GobEncode
pblockGobEncode(b) ==
    (<<Len(b.posts)>>
        \o gobConcat([k \in 1..Len(b.posts) |-> gobSlice(cpostingGobEncode(b.posts[k]))]))
        \o <<b.length>> \o gobSlice(b.boundary) \o gobStrings(b.wboundary)

\* pblock.GobDecode
pblockGobDecode(data) ==
    LET posts == decSlices(data, 1)
        length == decUint(data, posts.pos)
        boundary == decSlice(data, length.pos)
        wboundary == decSlices(data, boundary.pos)
        post(k) == cpostingGobDecode(posts.v[k])
    IN [ok |-> /\ posts.ok /\ length.ok /\ boundary.ok /\ wboundary.ok
               /\ Len(boundary.v) = 2 /\ Len(wboundary.v) = 2
               /\ \A k \in 1..Len(posts.v) : post(k).ok,
        v  |-> [posts     |-> [k \in 1..Len(posts.v) |-> post(k).v],
                length    |-> length.v,
                boundary  |-> boundary.v,
                wboundary |-> wboundary.v]]

\* enc.Encode(idx.charfreq): nil, or the 256 rows
charfreqGobEncode(cf) ==
    IF cf.cmax = 0 THEN <<0>>
    ELSE <<256>> \o gobConcat([c \in 1..256 |->
                      gobSlice([i \in 1..cf.cmax |-> charFreqAt(cf, c - 1, i - 1)])])

\* dec.Decode(&idx.charfreq)
charfreqGobDecode(s, pos) ==
    LET rows == decSlices(s, pos)
    IN [ok  |-> rows.ok,
        pos |-> rows.pos,
        v   |-> IF Len(rows.v) = 0 THEN [ok |-> TRUE, cmax |-> 0, rows |-> <<>>]
                ELSE [ok   |-> TRUE,
                      cmax |-> Len(rows.v[1]),
                      rows |-> [c \in 0..(Len(rows.v) - 1) |-> rows.v[c + 1]]]]

\* Index.GobEncode
IndexGobEncode(idx) ==
    (<<Len(idx.blocks)>>
        \o gobConcat([k \in 1..Len(idx.blocks) |-> gobSlice(pblockGobEncode(idx.blocks[k]))]))
        \o gobStrings(idx.words) \o gobSlice(idx.freqword)
        \o charfreqGobEncode(idx.charfreq) \o <<idx.size>>

\* Index.GobDecode
IndexGobDecode(data) ==
    LET blocks == decSlices(data, 1)
        words == decSlices(data, blocks.pos)
        freqword == decSlice(data, words.pos)
        charfreq == charfreqGobDecode(data, freqword.pos)
        size == decUint(data, charfreq.pos)
        block(k) == pblockGobDecode(blocks.v[k])
    IN [ok    |-> /\ blocks.ok /\ words.ok /\ freqword.ok /\ charfreq.ok /\ size.ok
                  /\ \A k \in 1..Len(blocks.v) : block(k).ok,
        index |-> [blocks   |-> [k \in 1..Len(blocks.v) |-> block(k).v],
                   words    |-> words.v,
                   freqword |-> freqword.v,
                   charfreq |-> charfreq.v,
                   size     |-> size.v]]

\* Index.Write: the stream written.
Write(idx) == gobSlice(IndexGobEncode(idx))

\* Index.Read of the stream into NewIndex(): whether it returned no error
\* (ok), and the index read.
Read(stream) ==
    LET data == decSlice(stream, 1)
    IN IF ~data.ok THEN [ok |-> FALSE, index |-> EmptyIndex]
       ELSE IF ~IndexGobDecode(data.v).ok THEN [ok |-> FALSE, index |-> EmptyIndex]
       ELSE IndexGobDecode(data.v)

(***************************************************************************)
(* The views of a Result, each as the sequence its iterator yields.        *)
(***************************************************************************)
\* ranks.Less
ranksLess(a, b) == a.rank > b.rank

\* byHits.Less
byHitsLess(a, b) == IF a.hits # b.hits THEN a.hits > b.hits ELSE a.word < b.word

\* Result.Hits, "Remove duplicate IDs"
dedup(results) ==
    LET pid(i) == IF i = 1 THEN MaxUint32 ELSE results[i - 1].id
    IN SelectSeq([i \in 1..Len(results) |-> [p |-> results[i], keep |-> results[i].id # pid(i)]],
                 LAMBDA e : e.keep)

\* Result.Hits() iterated with Hits.Next and Hits.ID.
Hits(r) ==
    LET d == dedup(r.results)
        cpy == insertionSort([i \in 1..Len(d) |-> d[i].p], ranksLess)
    IN [i \in 1..Len(cpy) |-> cpy[i].id]

\* Result.TopHits(k) iterated with Hits.Next and Hits.ID.
TopHits(r, k) ==
    LET d == dedup(r.results)
        f[i \in 0..Len(d)] ==
            IF i = 0 THEN <<>>
            ELSE LET p == d[i].p
                     e == [key |-> p.rank, val |-> p]
                 IN IF Len(f[i - 1]) < k THEN heapPush(f[i - 1], e)
                    ELSE IF p.rank > f[i - 1][1].key
                    THEN heapPush(heapPop(f[i - 1]).heap, e)
                    ELSE f[i - 1]
        h == f[Len(d)]
        sorted == insertionSort([i \in 1..Len(h) |-> h[i].val], ranksLess)
    IN IF k = 0 THEN <<>> ELSE [i \in 1..Len(sorted) |-> sorted[i].id]

\* Completions.Next and Completions.Completion over the slice cs: the
\* entries before the first one with zero hits, each with its word.
iterate(cs, words) ==
    LET zeros == {i \in 1..Len(cs) : cs[i].hits = 0}
        n == IF zeros = {} THEN Len(cs) ELSE SetMin(zeros) - 1
    IN [i \in 1..n |-> [Word |-> words[cs[i].word + 1], Hits |-> cs[i].hits]]

\* Result.Completions() iterated.
Completions(r) == iterate(insertionSort(completionsOf(r), byHitsLess), r.words)

\* Result.TopCompletions(k) iterated.
TopCompletions(r, k) ==
    LET cs == completionsOf(r)
        f[i \in 0..Len(cs)] ==
            IF i = 0 THEN <<>>
            ELSE LET e == [key |-> cs[i].hits, val |-> cs[i]]
                 IN IF Len(f[i - 1]) < k THEN heapPush(f[i - 1], e)
                    ELSE IF cs[i].hits > f[i - 1][1].key
                    THEN heapPush(heapPop(f[i - 1]).heap, e)
                    ELSE f[i - 1]
        h == f[Len(cs)]
    IN IF k = 0 THEN <<>>
       ELSE iterate(insertionSort([i \in 1..Len(h) |-> h[i].val], byHitsLess), r.words)

\* The four views of a Result.
Views == {"Hits", "TopHits", "Completions", "TopCompletions"}

\* A call of a view in which Completions sorts r.completions itself, not a
\* copy of it.
viewSortingInPlace(r, v, k) ==
    LET sorted == insertionSort(completionsOf(r), byHitsLess)
        off == r.completions.off
        arr == r.compbuf.arr
    IN [out |-> CASE v = "Hits" -> Hits(r)
                  [] v = "TopHits" -> TopHits(r, k)
                  [] v = "Completions" -> iterate(sorted, r.words)
                  [] OTHER -> TopCompletions(r, k),
        r   |-> IF v = "Completions" /\ ~r.completions.nil
                THEN [r EXCEPT !.compbuf.arr =
                         [i \in 1..Len(arr) |->
                             IF i > off /\ i <= off + r.completions.len
                             THEN sorted[i - off] ELSE arr[i]]]
                ELSE r]

\* A call of the view v of r (with k for TopHits and TopCompletions): what
\* the iterator returned yields (out), and the Result after the call.  Hits
\* and Completions sort the copy cpy they make, TopHits and TopCompletions
\* the heap h they make; none of them assigns a field of r or an element of
\* its slices.
view(r, v, k) ==
    [out |-> CASE v = "Hits" -> Hits(r)
               [] v = "TopHits" -> TopHits(r, k)
               [] v = "Completions" -> Completions(r)
               [] OTHER -> TopCompletions(r, k),
     r   |-> r]

(***************************************************************************)
(* The inputs.  A string is the sequence of its bytes: "a" is <<97>>,      *)
(* "ab" <<97, 98>>, "ac" <<97, 99>>, "b" <<98>>, "z" <<122>>, and          *)
(* "a\U0010FFFF" is <<97, 244, 143, 191, 191>>.                            *)
(***************************************************************************)
\* The document ids Add and Delete are called with.
AddIds == {0, MaxUint32}

\* The ranks Add is called with.
Ranks == {0, 1}

\* The keyword lists Add is called with.
Keywords ==
    { <<>>,
      << <<97>> >>,
      << <<97>>, <<97>>, <<97>> >>,
      << <<97, 99>>, <<97>> >>,
      << <<97, 98>>, <<97, 99>> >>,
      << <<98>> >>,
      << <<97, 244, 143, 191, 191>> >> }

\* The queries Search is called with.
Queries ==
    { <<>>,
      << <<97>> >>,
      << <<97, 98>> >>,
      << <<97>>, <<97>> >>,
      << <<97, 98>>, <<97, 99>> >>,
      << <<122>> >>,
      << <<>> >> }

\* Keyword lists of documents with no keyword, with the keyword "a" and
\* with the keywords "ab" and "ac".
FewKeywords == { <<>>, << <<97>> >>, << <<97, 98>>, <<97, 99>> >> }

\* Keyword lists and queries with bytes above those of utf8.MaxRune:
\* "ab\xF4" is <<97, 98, 244>> and "ab\xF4\x90" <<97, 98, 244, 144>>.
ByteKeywords ==
    { << <<97>>, <<97, 98>>, <<97, 98, 244>>, <<97, 98, 244, 144>> >>,
      << <<97, 255>> >> }

ByteQueries ==
    { << <<97>>, <<97>> >>,
      << <<97>> >>,
      << <<97, 98>> >>,
      << <<97, 98, 244>> >> }

(***************************************************************************)
(* The state: the builder (docs, count), the index Build returned, the     *)
(* Result the caller searches into, and where the program is (phase).      *)
(* live and queries record the calls made: live holds, for every id whose  *)
(* last call is an Add, the arguments of that Add; queries the queries of  *)
(* the Search calls in order.  caller holds, for every Add and Delete call  *)
(* in order, the keyword slice of the caller: as it was passed, as it is   *)
(* now, and whether the caller wrote to it after the call; Build reads the *)
(* slices for the last time, and they are not followed after it.  call is  *)
(* the last call of a function on its own, par the Search calls in         *)
(* progress.                                                               *)
(***************************************************************************)
VARIABLES docs, count, phase, index, result, live, queries, call, caller, par

vars == <<docs, count, phase, index, result, live, queries, call, caller, par>>

\* The ids of the postings merge is called with.
MergeIds == {0, 1, MaxUint32}

\* The id-sorted arrays merge is called with, as their ids.
MergeArrays ==
    UNION {{a \in [1..n -> MergeIds] : \A i \in 1..(n - 1) : a[i] <= a[i + 1]} :
              n \in 1..MaxMergeLen}

\* The posts merge is called with, as the ids of each array.
MergeInputs == UNION {[1..k -> MergeArrays] : k \in 0..MaxMergeArrays}

\* The posting arrays with these ids; the word and the rank of a posting
\* tell which array and which position it comes from.
postsOf(ids) ==
    [i \in 1..Len(ids) |->
        [j \in 1..Len(ids[i]) |-> [id |-> ids[i][j], word |-> i, rank |-> j]]]

\* The prior results intersect is called with: a posting for each id.
priorResults(ids) == [i \in 1..Len(ids) |-> [id |-> ids[i], word |-> 0, rank |-> 0]]

\* The tokens of the queries continuation is called with: "a", "ab", "b".
ContTokens == { <<97>>, <<97, 98>>, <<98>> }

\* The queries continuation is called with.
ContQueries == UNION {[1..n -> ContTokens] : n \in 0..MaxQueryLen}

\* The words of the word lists getWordRange is called with: "a", "ab",
\* "a\U0010FFFF", "a\xFF" and "b".
RangeWords == { <<97>>, <<97, 98>>, <<97, 244, 143, 191, 191>>, <<97, 255>>, <<98>> }

\* The word lists getWordRange is called with: distinct words in
\* byte-wise order.
RangeWordLists ==
    {ws \in UNION {[1..n -> RangeWords] : n \in 0..MaxWords} :
        \A i \in 1..(Len(ws) - 1) : StrLess(ws[i], ws[i + 1])}

\* The tokens getWordRange is called with: "", "a", "ab", "b", "c".
RangeTokens == { <<>>, <<97>>, <<97, 98>>, <<98>>, <<99>> }

\* No function was called on its own yet.
NoCall == [fn |-> "none"]

\* Keyword lists with the empty string as a keyword: "", "" "a", and "a".
EmptyKeywords == { << <<>> >>, << <<>>, <<97>> >>, << <<97>> >> }

\* Keyword lists of documents whose completions for "a" do not come sorted
\* by hits: "a" "ab" and "ab".
ViewKeywords == { << <<97>>, <<97, 98>> >>, << <<97, 98>> >> }

\* The queries of the searches the views are called between: "a" and "ab".
ViewQueries == { << <<97>> >>, << <<97, 98>> >> }

\* Document ids over the whole range of int: -1, 0, math.MaxUint32 and
\* math.MaxUint32 + 1.
WideIds == {-1, 0, MaxUint32, MaxUint32 + 1}

\* The words the caller of Add writes into its keyword slice afterwards:
\* "b" and "z".
WrittenWords == { <<98>>, <<122>> }

\* Keyword lists of documents with enough postings for Build to make the
\* blocks from the second byte of the words: "aa" "aa" "ab" "ab" "ac" "ac"
\* "ad" "ad" "ba" gives five blocks.  The other lists are "ab" "ac" and "a".
BlockKeywords ==
    { << <<97, 97>>, <<97, 97>>, <<97, 98>>, <<97, 98>>, <<97, 99>>, <<97, 99>>,
         <<97, 100>>, <<97, 100>>, <<98, 97>> >>,
      << <<97, 98>>, <<97, 99>> >>,
      << <<97>> >> }

\* The tokens the blocks are selected for: "", "a", "ab", "ac", "ad", "b",
\* "ba", "c".
BlockTokens ==
    { <<>>, <<97>>, <<97, 98>>, <<97, 99>>, <<97, 100>>, <<98>>, <<98, 97>>, <<99>> }

\* The goroutines that call Search, each with a Result of its own.
Goroutines == {1, 2}

\* The keyword lists of documents whose postings fall in several blocks and
\* chunks: a word repeated, two words with a common prefix, a word alone.
ParKeywords ==
    { << <<97>>, <<97>>, <<97>> >>,
      << <<97, 98>>, <<97, 99>> >>,
      << <<98>> >> }

\* The queries of the calls that run at the same time.
ParQueries ==
    { << <<97>> >>,
      << <<97>>, <<97, 98>> >>,
      << <<98>> >>,
      << <<97>>, <<98>> >> }

\* No Search call was made: each goroutine holds its &Result{}, and the
\* buffers are empty.  overlapped records that a call took a step while
\* another call was inside Search.
NoSearches ==
    [calls      |-> [g \in Goroutines |-> idleCall(EmptyResult)],
     buffer     |-> [g \in Goroutines |-> unpackChunk([ids |-> Pack(<<>>),
                                                       words |-> Pack(<<>>),
                                                       ranks |-> Pack(<<>>)])],
     overlapped |-> FALSE]

\* NewBuilder(), and the caller's &Result{}
Init ==
    /\ docs = <<>>
    /\ count = 0
    /\ phase = "building"
    /\ index = Nil
    /\ result = EmptyResult
    /\ live = {}
    /\ queries = <<>>
    /\ call = NoCall
    /\ caller = <<>>
    /\ par = NoSearches

\* Builder.Add(id, keywords, rank)
AddFrom(Ids, Lists, Rs) ==
    \E id \in Ids, keywords \in Lists, rank \in Rs :
        /\ phase = "building"
        /\ count < MaxOps
        /\ docs' = Append(docs, [id |-> id, words |-> sortStrings(keywords),
                                 rank |-> rank, count |-> count, deleted |-> FALSE])
        /\ count' = count + 1
        /\ live' = {d \in live : d.id # id}
                   \cup {[id |-> id, keywords |-> keywords, rank |-> rank]}
        /\ caller' = Append(caller, [passed  |-> keywords,
                                      slice   |-> sortStrings(keywords),
                                      written |-> FALSE])
        /\ UNCHANGED <<phase, index, result, queries, call, par>>

AddWith(Lists, Rs) == AddFrom(AddIds, Lists, Rs)

AddOf(Lists) == AddWith(Lists, Ranks)

Add == AddOf(Keywords)

AddBytes == AddOf(ByteKeywords)

\* Builder.Add with few keywords or none.
AddFew == AddOf(FewKeywords)

\* Builder.Delete(id)
DeleteFrom(Ids) ==
    \E id \in Ids :
        /\ phase = "building"
        /\ count < MaxOps
        /\ docs' = Append(docs, [id |-> id, words |-> <<>>, rank |-> -1,
                                 count |-> count, deleted |-> TRUE])
        /\ count' = count + 1
        /\ live' = {d \in live : d.id # id}
        /\ caller' = Append(caller, [passed |-> <<>>, slice |-> <<>>,
                                      written |-> FALSE])
        /\ UNCHANGED <<phase, index, result, queries, call, par>>

Delete == DeleteFrom(AddIds)

\* The docs of the builder after the caller assigns w to element j (from 1)
\* of the keyword slice it passed to the k-th call: Add keeps the slice it
\* was passed in the doc, so the doc's words are the same array.
writeThrough(ds, k, j, w) ==
    [i \in 1..Len(ds) |->
        IF i = k
        THEN [ds[i] EXCEPT !.words = [n \in 1..Len(ds[i].words) |->
                                         IF n = j THEN w ELSE ds[i].words[n]]]
        ELSE ds[i]]

\* keywords[j] = w by the caller of Add, after Add returned and before Build
CallerWrite ==
    \E k \in 1..Len(caller), w \in WrittenWords :
        \E j \in 1..Len(caller[k].slice) :
            /\ phase = "building"
            /\ ~caller[k].written
            /\ caller' = [i \in 1..Len(caller) |->
                             IF i = k
                             THEN [passed  |-> caller[k].passed,
                                   slice   |-> [n \in 1..Len(caller[k].slice) |->
                                                  IF n = j THEN w
                                                  ELSE caller[k].slice[n]],
                                   written |-> TRUE]
                             ELSE caller[i]]
            /\ docs' = writeThrough(docs, k, j, w)
            /\ UNCHANGED <<count, phase, index, result, live, queries, call, par>>

\* Builder.Build()
CallBuild ==
    \E ranked \in byRankOrders(docs) :
        \E b \in {Build(ranked)} :
            /\ phase = "building"
            /\ docs' = b.docs
            /\ phase' = IF b.ok THEN "built" ELSE "buildpanic"
            /\ index' = b.index
            /\ caller' = <<>>
            /\ UNCHANGED <<count, result, live, queries, call, par>>

\* Index.Search(query, &result)
SearchOf(Qs, n) ==
    \E query \in Qs :
        /\ phase = "built"
        /\ Len(queries) < n
        /\ \E s \in {Search(index, query, result)} :
               /\ phase' = IF s.ok THEN "built" ELSE "searchpanic"
               /\ result' = s.r
        /\ queries' = Append(queries, query)
        /\ UNCHANGED <<docs, count, index, live, call, caller, par>>

CallSearch == SearchOf(Queries, MaxSearches)

CallSearchBytes == SearchOf(ByteQueries, MaxByteSearches)

\* intersect(results, comps, 0, b, wrange, idx.freqword) on a block of the
\* index, with prior results sorted by id and the completions of the range
CallIntersect ==
    /\ phase = "built"
    /\ call = NoCall
    /\ \E k \in 1..Len(index.blocks), ids \in MergeArrays :
           \E w0 \in 0..(Len(index.words) - 1) :
               \E w1 \in w0..(Len(index.words) - 1) :
                   call' = [fn      |-> "intersect",
                            block   |-> index.blocks[k],
                            results |-> priorResults(ids),
                            wrange  |-> <<w0, w1>>,
                            ret     |-> intersect(
                                            priorResults(ids),
                                            [i \in 1..(w1 - w0 + 1) |->
                                                [word |-> w0 + i - 1, hits |-> 0]],
                                            0, index.blocks[k], <<w0, w1>>,
                                            index.freqword)]
    /\ UNCHANGED <<docs, count, phase, index, result, live, queries, caller, par>>

\* idx.Write(buf) and NewIndex().Read(buf)
CallWriteRead ==
    /\ phase = "built"
    /\ call = NoCall
    /\ \E r \in {Read(Write(index))} :
           call' = [fn |-> "WriteRead", ok |-> r.ok, index |-> r.index]
    /\ UNCHANGED <<docs, count, phase, index, result, live, queries, caller, par>>

\* merge(&res, posts)
CallMerge ==
    /\ call = NoCall
    /\ \E ids \in MergeInputs :
           \E ret \in {merge(<<>>, postsOf(ids))} :
               call' = [fn |-> "merge", posts |-> postsOf(ids), ret |-> ret]
    /\ UNCHANGED <<docs, count, phase, index, result, live, queries, caller, par>>

\* continuation(prev, curr)
CallContinuation ==
    /\ call = NoCall
    /\ \E prev \in ContQueries, curr \in ContQueries :
           call' = [fn |-> "continuation", prev |-> prev, curr |-> curr,
                    ret |-> continuation(prev, curr)]
    /\ UNCHANGED <<docs, count, phase, index, result, live, queries, caller, par>>

\* Builder.Add of documents that have the empty string as a keyword.
AddEmpty == AddWith(EmptyKeywords, {0})

\* Builder.Add of the documents the views are called on.
AddView == AddWith(ViewKeywords, {0})

\* Index.Search of the queries the views are called between.
CallSearchView == SearchOf(ViewQueries, MaxSearches)

\* result.Hits(), result.TopHits(k), result.Completions() or
\* result.TopCompletions(k), iterated to the end; at is the number of Search
\* calls before it.
CallView ==
    \E v \in Views, k \in 0..MaxK :
        /\ phase = "built"
        /\ v \in {"Hits", "Completions"} => k = 0
        /\ \E x \in {view(result, v, k)} :
               /\ result' = x.r
               /\ call' = [fn |-> "view", view |-> v, k |-> k,
                           at |-> Len(queries), out |-> x.out]
        /\ UNCHANGED <<docs, count, phase, index, live, queries, caller, par>>

\* getWordRange(query, words, offset)
CallGetWordRange ==
    /\ call = NoCall
    /\ \E words \in RangeWordLists, query \in RangeTokens :
           \E offset \in 0..Len(words) :
               call' = [fn |-> "getWordRange", query |-> query, words |-> words,
                        offset |-> offset,
                        ret |-> getWordRange(query, words, offset)]
    /\ UNCHANGED <<docs, count, phase, index, result, live, queries, caller, par>>

\* Builder.Add of documents whose postings fall in several blocks and
\* chunks.
AddPar == AddWith(ParKeywords, {0})

\* Builder.Add with an id of the whole range of int.
AddWide == AddFrom(WideIds, ParKeywords, {0})

\* Builder.Delete with an id of the whole range of int.
DeleteWide == DeleteFrom(WideIds)

\* Builder.Add of documents with enough postings for five blocks.
AddBlocks == AddWith(BlockKeywords, {0})

\* Whether a call other than g is inside Search.
otherInside(g) ==
    \E h \in Goroutines \ {g} : par.calls[h].pc = "scan"

\* The step of the call g that leaves its record as p, at a chunk to scan
\* or at the end of Search: at a chunk, the chunk is unpacked into the
\* buffer of the call.
stepTo(g, p) ==
    /\ par' = [calls      |-> [par.calls EXCEPT ![g] = p],
               buffer     |-> IF p.pc = "scan"
                              THEN [par.buffer EXCEPT
                                       ![bufferOf(g)] =
                                           unpackChunk(
                                               p.f.blocks[p.f.bi].posts[p.f.ci])]
                              ELSE par.buffer,
               overlapped |-> par.overlapped \/ otherInside(g)]
    /\ UNCHANGED <<docs, count, phase, index, result, live, queries, call, caller>>

\* go idx.Search(query, &results[g]): the call runs up to the first chunk
\* it unpacks, or to its end when it unpacks none
EnterSearch ==
    \E g \in Goroutines, query \in ParQueries :
        /\ phase = "built"
        /\ par.calls[g].pc = "idle"
        /\ stepTo(g, advance(index, searchEnter(index, query, par.calls[g])))

\* Index.Search of a goroutine, from the loops of intersect over the chunk
\* it unpacked up to the next chunk it unpacks, or to its end
ScanStep ==
    \E g \in Goroutines :
        /\ par.calls[g].pc = "scan"
        /\ stepTo(g, advance(index,
                             scanStep(par.calls[g], par.buffer[bufferOf(g)],
                                      index.freqword)))

Next == Add \/ Delete \/ CallBuild \/ CallSearch

Spec == Init /\ [][Next]_vars

\* The builder alone: Add, Delete and Build.
NextBuild == Add \/ Delete \/ CallBuild

SpecBuild == Init /\ [][NextBuild]_vars

\* Builders with few postings or none, searched with every query.
NextFew == AddFew \/ Delete \/ CallBuild \/ CallSearch

SpecFew == Init /\ [][NextFew]_vars

\* Build, then Write and Read.
NextGob == Add \/ Delete \/ CallBuild \/ CallWriteRead

SpecGob == Init /\ [][NextGob]_vars

\* Documents whose postings fall in several blocks and chunks, searched
\* with every query.
NextMany == AddPar \/ Delete \/ CallBuild \/ CallSearch

SpecMany == Init /\ [][NextMany]_vars

\* Builders of indexes with up to five blocks.
NextBlocks == AddBlocks \/ Delete \/ CallBuild

SpecBlocks == Init /\ [][NextBlocks]_vars

\* intersect called on the blocks of a built index.
NextIntersect == AddPar \/ Delete \/ CallBuild \/ CallIntersect

SpecIntersect == Init /\ [][NextIntersect]_vars

\* Builders of documents with the empty string as a keyword.
NextEmpty == AddEmpty \/ Delete \/ CallBuild

SpecEmpty == Init /\ [][NextEmpty]_vars

\* Searches with calls of the views between them.
NextViews == AddView \/ CallBuild \/ CallSearchView \/ CallView

SpecViews == Init /\ [][NextViews]_vars

\* Builders of documents with ids of the whole range of int.
NextWide == AddWide \/ DeleteWide \/ CallBuild

SpecWide == Init /\ [][NextWide]_vars

\* The caller of Add writes to its keyword slices before Build.
NextAlias == Add \/ CallerWrite \/ CallBuild

SpecAlias == Init /\ [][NextAlias]_vars

\* Two goroutines search a built index at the same time.
NextPar == AddPar \/ CallBuild \/ EnterSearch \/ ScanStep

SpecPar == Init /\ [][NextPar]_vars

\* The functions of the query path, each called on its own.
NextCall == CallMerge \/ CallContinuation \/ CallGetWordRange

SpecCall == Init /\ [][NextCall]_vars

NextBytes == AddBytes \/ Delete \/ CallBuild \/ CallSearchBytes

SpecBytes == Init /\ [][NextBytes]_vars

(***************************************************************************)
(* What the calls made so far mean.  A document is a record of live: an    *)
(* id with the keywords and the rank of the last Add of that id.           *)
(***************************************************************************)
\* Every token of the query is a prefix of at least one keyword of d.
Matches(d, query) ==
    \A i \in 1..Len(query) :
        \E j \in 1..Len(d.keywords) : HasPrefix(d.keywords[j], query[i])

\* The documents that match the query.
Matching(query) == {d \in live : Matches(d, query)}

\* The vocabulary: the keywords of the documents.
Vocabulary == UNION {Range(d.keywords) : d \in live}

\* The number of matching documents that contain the word.
DocHits(query, w) ==
    Cardinality({d \in Matching(query) : w \in Range(d.keywords)})

\* The completions of the query: the words of the vocabulary that start
\* with its last token and occur in a matching document, with their hits.
MatchingCompletions(query) ==
    {[Word |-> w, Hits |-> DocHits(query, w)] :
        w \in {v \in Vocabulary : /\ HasPrefix(v, query[Len(query)])
                                  /\ DocHits(query, v) > 0}}

\* The last query searched for.
LastQuery == queries[Len(queries)]

\* Every call so far was an Add, each with an id of its own.
DistinctAdds == count = Cardinality(live)

\* The query q continues the query p: it has the same or more tokens, and
\* every token of p is a prefix of the token of q at the same position.
Continues(p, q) ==
    /\ Len(p) <= Len(q)
    /\ \A i \in 1..Len(p) : HasPrefix(q[i], p[i])

\* The sequence s has no element twice.
NoRepeats(s) == \A i, j \in 1..Len(s) : i # j => s[i] # s[j]

\* The ids of the postings of the result.
ResultIds(r) == {r.results[i].id : i \in 1..Len(r.results)}

\* The rank the index holds for an id of the result.
ResultRank(r, id) ==
    (CHOOSE p \in Range(r.results) : p.id = id).rank

\* The rank the caller gave the document with this id.
CallerRank(id) == (CHOOSE d \in live : d.id = id).rank

\* s is the sequence of the first n elements of t, and t has that many.
IsPrefixOfLen(s, t, n) ==
    /\ Len(s) = n
    /\ n <= Len(t)
    /\ \A i \in 1..Len(s) : i <= Len(t) /\ s[i] = t[i]

\* The postings the index holds, block by block and chunk by chunk, each as
\* the id and the word it stands for.
indexPostings(idx) ==
    LET chunk(p) ==
            LET ids == Unpack(p.ids)
                ws == Unpack(p.words)
            IN [j \in 1..Len(ids) |->
                   [id |-> ids[j], word |-> idx.words[idx.freqword[ws[j] + 1] + 1]]]
        block(b) ==
            LET f[k \in 0..Len(b.posts)] ==
                    IF k = 0 THEN <<>> ELSE f[k - 1] \o chunk(b.posts[k])
            IN f[Len(b.posts)]
        g[k \in 0..Len(idx.blocks)] ==
            IF k = 0 THEN <<>> ELSE g[k - 1] \o block(idx.blocks[k])
    IN g[Len(idx.blocks)]

\* The number of postings of the index for the id and the word.
PostingCount(id, w) ==
    LET ps == indexPostings(index)
    IN Cardinality({k \in 1..Len(ps) : ps[k] = [id |-> id, word |-> w]})

\* The number of times the last Add of the id, if the id is live, names
\* the word.
LiveCount(id, w) ==
    IF \E d \in live : d.id = id
    THEN LET d == CHOOSE e \in live : e.id = id
         IN Cardinality({j \in 1..Len(d.keywords) : d.keywords[j] = w})
    ELSE 0

\* No document has a keyword.
NoPostings == \A d \in live : d.keywords = <<>>

(***************************************************************************)
(* The properties.                                                         *)
(***************************************************************************)
\* C1: for an index built from Add calls with distinct non-negative ids and
\* a non-empty query of non-empty tokens, a Search into an empty Result
\* makes Hits() yield exactly the ids of the documents in which every token
\* is a prefix of a keyword, each id once.
HitsAreTheMatchingDocuments ==
    ( /\ phase = "built"
      /\ DistinctAdds
      /\ Len(queries) = 1
      /\ LastQuery # <<>>
      /\ \A i \in 1..Len(LastQuery) : LastQuery[i] # <<>> )
    => /\ Range(Hits(result)) = {d.id : d \in Matching(LastQuery)}
       /\ NoRepeats(Hits(result))

\* C2: after a Search the completions Completions() yields are exactly the
\* words that start with the last token and occur in a matching document,
\* each with the number of distinct matching documents that contain it: a
\* keyword repeated in one document counts once, wherever its postings fall
\* relative to the chunk boundaries.
CompletionsCountMatchingDocuments ==
    ( /\ phase = "built"
      /\ DistinctAdds
      /\ Len(queries) = 1
      /\ LastQuery # <<>> )
    => /\ Range(Completions(result)) = MatchingCompletions(LastQuery)
       /\ NoRepeats(Completions(result))

\* C3: when every query of a sequence of Search calls on one Result
\* continues the one before it, whatever number of tokens is extended at
\* once, the hits and the completions after the last Search are those of a
\* Search for the last query into an empty Result.
ContinuationEqualsFreshSearch ==
    ( /\ phase = "built"
      /\ Len(queries) >= 2
      /\ \A i \in 1..(Len(queries) - 1) : Continues(queries[i], queries[i + 1])
      /\ Search(index, LastQuery, EmptyResult).ok )
    => /\ Hits(result) = Hits(Search(index, LastQuery, EmptyResult).r)
       /\ Completions(result)
              = Completions(Search(index, LastQuery, EmptyResult).r)

\* C4: for Add and Delete calls with ids in [0, 2^32), the index Build
\* returns holds postings for an id exactly when the last call on that id
\* is an Add, and then one posting for each keyword occurrence of that Add
\* and none of an earlier Add; a Delete of an id never added, or added
\* again later, removes nothing.
LastWriterWins ==
    phase = "built"
    => \A id \in 0..MaxUint32 :
           \A w \in Vocabulary \cup Range(index.words) :
               PostingCount(id, w) = LiveCount(id, w)

\* An id was added twice, or deleted and added again, and the index is
\* built with postings of it.
LastWriterWinsReached ==
    /\ phase = "built"
    /\ count = 2
    /\ Cardinality(live) = 1
    /\ \E d \in live : PostingCount(d.id, d.keywords[1]) > 0

\* C5: Build on a builder with no surviving postings (no records, only
\* tombstones, every Add deleted afterwards, or survivors without keywords)
\* returns an empty Index and does not panic, and every Search against that
\* index leaves the Result with no hits and no completions and does not
\* panic.
EmptyBuildAndSearch ==
    (phase # "building" /\ NoPostings)
    => /\ phase = "built"
       /\ index = EmptyIndex
       /\ Hits(result) = <<>>
       /\ Completions(result) = <<>>
       /\ result.results = <<>>

\* A builder whose only Add was deleted afterwards, or whose survivor has
\* no keywords, is built and searched with a query that has a token.
EmptyBuildAndSearchReached ==
    /\ phase = "built"
    /\ NoPostings
    /\ count = 2
    /\ \E i \in 1..Len(queries) : queries[i] # <<>>
    /\ Len(queries) >= 2

\* C6: Search returns normally, with no index or slice out of range, for
\* every built index, every Result earlier Search calls left and every
\* query; and a query with a token that no word of the vocabulary extends
\* yields no hits and no completions.
QueryPathNeverFails ==
    /\ phase # "searchpanic"
    /\ ( /\ phase = "built"
         /\ Len(queries) >= 1
         /\ \E i \in 1..Len(LastQuery) :
                \A v \in Vocabulary : ~HasPrefix(v, LastQuery[i]) )
       => /\ Hits(result) = <<>>
          /\ Completions(result) = <<>>

\* C7: Hits() yields each document id of the result exactly once, also
\* when the result holds several postings of the document, in strictly
\* descending order of rank, so a document added with a higher rank comes
\* before one added with a lower rank.
HitsOncePerDocumentByRank ==
    (phase = "built" /\ Len(queries) >= 1)
    => /\ Range(Hits(result)) = ResultIds(result)
       /\ NoRepeats(Hits(result))
       /\ \A i, j \in 1..Len(Hits(result)) :
              i < j => /\ ResultRank(result, Hits(result)[i])
                            > ResultRank(result, Hits(result)[j])
                       /\ CallerRank(Hits(result)[i])
                            >= CallerRank(Hits(result)[j])

\* C8: for every k >= 0, TopHits(k) yields exactly the first min(k, n) ids
\* of the sequence Hits() yields, n being the number of distinct matching
\* documents; TopHits(0) yields nothing.
TopHitsIsPrefixOfHits ==
    (phase = "built" /\ Len(queries) >= 1)
    => \A k \in 0..MaxK :
           IsPrefixOfLen(TopHits(result, k), Hits(result),
                         Min(k, Cardinality(ResultIds(result))))

\* C9: for every k >= 0, TopCompletions(k) yields exactly the first
\* min(k, m) entries of the sequence Completions() yields, m being the
\* number of completions with a hit, also when completions tie on their
\* hits at the cut-off.
TopCompletionsIsPrefixOfCompletions ==
    (phase = "built" /\ Len(queries) >= 1)
    => \A k \in 0..MaxK :
           IsPrefixOfLen(TopCompletions(result, k), Completions(result),
                         Min(k, Cardinality({i \in 1..Len(completionsOf(result)) :
                                                completionsOf(result)[i].hits > 0})))

\* C10: the sequence Completions() yields is strictly ordered by descending
\* hits and, among equal hits, by ascending word, and holds no completion
\* with zero hits.
CompletionsStrictlyOrdered ==
    (phase = "built" /\ Len(queries) >= 1)
    => /\ \A i \in 1..Len(Completions(result)) : Completions(result)[i].Hits > 0
       /\ \A i, j \in 1..Len(Completions(result)) :
              i < j => \/ Completions(result)[i].Hits > Completions(result)[j].Hits
                       \/ /\ Completions(result)[i].Hits = Completions(result)[j].Hits
                          /\ StrLess(Completions(result)[i].Word,
                                     Completions(result)[j].Word)

\* The character frequencies a and b hold are the same: the same number of
\* positions and the same frequency for every byte at every position.
SameCharfreq(a, b) ==
    /\ a.cmax = b.cmax
    /\ \A c \in 0..255 : \A i \in 0..(a.cmax - 1) :
           charFreqAt(a, c, i) = charFreqAt(b, c, i)

\* C11: for every built index, the empty one included, Write followed by
\* Read into a new Index returns no error and gives an index with the same
\* blocks, chunks, id boundaries, word boundaries, words, freqword, charfreq
\* and size, which answers every query, and every query after another on
\* the same Result, as the index written does.
WriteReadRoundTrip ==
    call.fn = "WriteRead"
    => /\ call.ok
       /\ call.index.blocks = index.blocks
       /\ call.index.words = index.words
       /\ call.index.freqword = index.freqword
       /\ SameCharfreq(call.index.charfreq, index.charfreq)
       /\ call.index.size = index.size
       /\ \A q \in Queries :
              /\ Search(call.index, q, EmptyResult) = Search(index, q, EmptyResult)
              /\ Search(index, q, EmptyResult).ok
                  => \A p \in Queries :
                         Search(call.index, p, Search(call.index, q, EmptyResult).r)
                             = Search(index, p, Search(index, q, EmptyResult).r)

\* An index with several blocks, one of them with more than one chunk, was
\* written and read.
WriteReadRoundTripReached ==
    /\ call.fn = "WriteRead"
    /\ Len(index.blocks) >= 2
    /\ \E k \in 1..Len(index.blocks) : Len(index.blocks[k].posts) >= 2

\* The postings of the arrays merge was called with.
MergedInputs ==
    UNION {Range(call.posts[i]) : i \in 1..Len(call.posts)}

\* C12: merge of k >= 0 non-empty posting arrays, each sorted by
\* non-decreasing id, sets the result to a sequence sorted by non-decreasing
\* id that holds every posting of the inputs once, postings with equal ids
\* included; with k = 0 the result is empty and with k = 1 it is the input.
MergeSortedPermutation ==
    call.fn = "merge"
    => /\ \A i \in 1..(Len(call.ret) - 1) : call.ret[i].id <= call.ret[i + 1].id
       /\ Range(call.ret) = MergedInputs
       /\ NoRepeats(call.ret)
       /\ Len(call.posts) = 0 => call.ret = <<>>
       /\ Len(call.posts) = 1 => call.ret = call.posts[1]

\* merge was called with three arrays, two of them with a posting of the
\* same id, and more postings than arrays.
MergeSortedPermutationReached ==
    /\ call.fn = "merge"
    /\ Len(call.posts) = 3
    /\ call.posts[1][1].id = call.posts[3][1].id
    /\ Len(call.ret) >= 5

\* The first index (1-based) at which the token of call.curr differs from
\* the token of call.prev, or the index after call.prev when none does.
FirstChanged ==
    SetMin({i \in 1..Len(call.prev) : call.curr[i] # call.prev[i]}
           \cup {Len(call.prev) + 1})

\* C15: when the query continues the previous query, the tokens Search
\* processes again are the suffix of the query from the first index where
\* its token differs from the previous one, or the tokens after the length
\* of the previous query when none differs; so every changed token is
\* processed again.
RefinedFromFirstChange ==
    (call.fn = "continuation" /\ call.ret.cont)
    => call.ret.query = SubSeq(call.curr, FirstChanged, Len(call.curr))

\* C16: continuation(prev, curr) reports a continuation exactly when
\* len(prev) <= len(curr) and every token of prev is a prefix of the token
\* of curr at its position, an empty prev included.
ContinuationIffPrefixes ==
    call.fn = "continuation"
    => (call.ret.cont <=> Continues(call.prev, call.curr))

\* C16, amended: continuation(prev, curr) reports a continuation exactly
\* when prev is not empty, len(prev) <= len(curr) and every token of prev
\* is a prefix of the token of curr at its position; when it reports none,
\* an empty prev included, the query it returns is curr.
ContinuationIffPrefixesOfNonEmpty ==
    call.fn = "continuation"
    => /\ call.ret.cont <=> (Len(call.prev) > 0 /\ Continues(call.prev, call.curr))
       /\ ~call.ret.cont => call.ret.query = call.curr

\* continuation reported a continuation of a query by a longer one with a
\* changed token.
ContinuationIffPrefixesOfNonEmptyReached ==
    /\ call.fn = "continuation"
    /\ call.ret.cont
    /\ Len(call.prev) = 2
    /\ Len(call.curr) = 3
    /\ call.curr[1] # call.prev[1]

\* The indexes (0-based) from offset on of the words of call.words that
\* start with call.query.
RangeMatches ==
    {i \in call.offset..(Len(call.words) - 1) :
        HasPrefix(call.words[i + 1], call.query)}

\* C17: over a list of distinct words in byte-wise order, getWordRange
\* returns nil when no word at an index from offset on starts with the
\* query, and otherwise the range of exactly the words from offset on that
\* start with it, whatever bytes continue the query in them.
WordRangeIsThePrefixRange ==
    call.fn = "getWordRange"
    => IF RangeMatches = {} THEN call.ret = NilRange
       ELSE call.ret = <<SetMin(RangeMatches), SetMax(RangeMatches)>>

\* The call of goroutine g, if it is over, ended as Search ends when it runs
\* alone on the index with the Result the call was given: it returned with
\* the same Result, or it panicked as the call alone does.
AsAlone(g) ==
    LET p == par.calls[g]
        s == Search(p.idx0, p.query, p.r0)
    IN /\ p.pc = "done" => s.ok /\ p.r = s.r
       /\ p.pc = "panic" => ~s.ok

\* C13: a Search call leaves the index as it was when the call began, and
\* whatever the interleaving of the steps of two Search calls that use
\* distinct Results on one index, each call ends with the Result it ends
\* with when it runs alone.
SearchesDoNotInterfere ==
    \A g \in Goroutines :
        par.calls[g].pc \in {"scan", "done", "panic"}
        => /\ index = par.calls[g].idx0
           /\ AsAlone(g)

\* Two calls with different queries ran at the same time, each unpacked
\* chunks, and both returned with results.
SearchesDoNotInterfereReached ==
    /\ par.overlapped
    /\ \A g \in Goroutines :
           /\ par.calls[g].pc = "done"
           /\ Len(par.calls[g].r.results) > 0
           /\ Len(par.calls[g].f.blocks) > 0
    /\ par.calls[1].query # par.calls[2].query

\* C14: Add leaves the caller's keyword slice as it was passed, and the
\* index Build returns holds the postings of the keywords as they were
\* passed to Add, whatever the caller writes to the slice between Add and
\* Build.
AddStoresACopy ==
    /\ \A k \in 1..Len(caller) :
           ~caller[k].written => caller[k].slice = caller[k].passed
    /\ phase = "built"
       => \A id \in 0..MaxUint32 :
              \A w \in Vocabulary \cup WrittenWords \cup Range(index.words) :
                  PostingCount(id, w) = LiveCount(id, w)

\* C20: after every Search call that returns, in any sequence of Search
\* calls on one Result, the postings of the Result are in non-decreasing
\* order of id.
ResultsSortedById ==
    (phase = "built" /\ Len(queries) >= 1)
    => \A i \in 1..(Len(result.results) - 1) :
           result.results[i].id <= result.results[i + 1].id

\* The second Search on a Result left postings of two documents, found in
\* more than one block.
ResultsSortedByIdReached ==
    /\ phase = "built"
    /\ Len(queries) = 2
    /\ Cardinality({result.results[i].id : i \in 1..Len(result.results)}) = 2
    /\ Cardinality({result.results[i].word : i \in 1..Len(result.results)}) >= 2
    /\ Len(queryBlocks(index, queries[2][Len(queries[2])])) >= 2

\* The ids of the words of the index that start with the token q.
WordsWithPrefix(q) ==
    {w \in 0..(Len(index.words) - 1) : HasPrefix(index.words[w + 1], q)}

\* The ids of the words of the block b.
WordsOfBlock(b) == b.boundary[1]..b.boundary[2]

\* C18: for every token, the blocks search selects include every block
\* of the index that holds a word starting with the token, and the first
\* block selected begins at or before the first word starting with the
\* token.
CandidateBlocksCoverMatches ==
    phase = "built"
    => \A q \in BlockTokens :
           /\ \A k \in 1..Len(index.blocks) :
                  WordsOfBlock(index.blocks[k]) \cap WordsWithPrefix(q) # {}
                  => \E n \in 1..Len(queryBlocks(index, q)) :
                         queryBlocks(index, q)[n] = index.blocks[k]
           /\ WordsWithPrefix(q) # {}
              => /\ Len(queryBlocks(index, q)) > 0
                 /\ queryBlocks(index, q)[1].boundary[1] <= SetMin(WordsWithPrefix(q))

\* An index of three blocks or more in which the words that start with "a"
\* lie in two blocks or more, and a block holds none of them.
CandidateBlocksCoverMatchesReached ==
    /\ phase = "built"
    /\ Len(index.blocks) >= 3
    /\ Len(queryBlocks(index, <<97>>)) >= 2
    /\ Len(queryBlocks(index, <<97>>)) < Len(index.blocks)
    /\ \A n \in 1..Len(queryBlocks(index, <<97>>)) :
           WordsOfBlock(queryBlocks(index, <<97>>)[n]) \cap WordsWithPrefix(<<97>>) # {}

\* The postings of the block call.block in the order of the block, each
\* with its word-id.
BlockPostings ==
    LET c(k) == unpackChunk(call.block.posts[k])
        f[k \in 0..Len(call.block.posts)] ==
            IF k = 0 THEN <<>>
            ELSE f[k - 1] \o [j \in 1..Len(c(k).ids) |->
                                 [id   |-> c(k).ids[j],
                                  word |-> index.freqword[c(k).words[j] + 1],
                                  rank |-> c(k).ranks[j]]]
    IN f[Len(call.block.posts)]

\* C19: with prior results in id order, intersect on a block returns, in
\* the order of the block, exactly the postings of the block whose id is
\* the id of a prior result and whose word-id lies in the word range,
\* whatever chunks it skips and wherever it stops.
IntersectEmitsExactly ==
    call.fn = "intersect"
    => /\ call.ret.ok
       /\ call.ret.out
              = SelectSeq(BlockPostings,
                          LAMBDA p : /\ \E i \in 1..Len(call.results) :
                                            call.results[i].id = p.id
                                     /\ p.word >= call.wrange[1]
                                     /\ p.word <= call.wrange[2])

\* intersect emitted the postings of one document from two chunks of a
\* block, skipped none of them, and left out postings of the block.
IntersectEmitsExactlyReached ==
    /\ call.fn = "intersect"
    /\ Len(call.block.posts) >= 2
    /\ Len(call.ret.out) > ChunkSize
    /\ Len(call.ret.out) < Len(BlockPostings)
    /\ \A i \in 1..Len(call.ret.out) : call.ret.out[i].id = call.ret.out[1].id

\* The ids of the chunks of the block b, one sequence per chunk.
ChunkIds(b) == [k \in 1..Len(b.posts) |-> Unpack(b.posts[k].ids)]

\* The ids of the block b: those of its chunks one after another.
BlockIds(b) ==
    LET f[k \in 0..Len(b.posts)] ==
            IF k = 0 THEN <<>> ELSE f[k - 1] \o ChunkIds(b)[k]
    IN f[Len(b.posts)]

NonDecreasing(s) == \A i \in 1..(Len(s) - 1) : s[i] <= s[i + 1]

\* C21: in every built index, whatever the integer ids of the Add and
\* Delete calls, the ids of each chunk are non-decreasing, the ids of the
\* chunks of a block one after another are non-decreasing, and the
\* iboundary of each chunk is its last id.
ChunkIdsSorted ==
    phase = "built"
    => \A n \in 1..Len(index.blocks) :
           /\ NonDecreasing(BlockIds(index.blocks[n]))
           /\ \A k \in 1..Len(index.blocks[n].posts) :
                  LET ids == ChunkIds(index.blocks[n])[k]
                  IN /\ NonDecreasing(ids)
                     /\ Len(ids) > 0
                     /\ index.blocks[n].posts[k].iboundary = ids[Len(ids)]

\* The ids of the postings of the index.
IndexIds == UNION {Range(BlockIds(index.blocks[n])) : n \in 1..Len(index.blocks)}

\* The documents whose last call is an Add with a keyword or more.
LiveWithKeywords == {d \in live : Len(d.keywords) > 0}

\* C25: Build returns no index when a document with postings has an id
\* below 0 or above math.MaxUint32, and the ids an index holds are ids of
\* documents added, never an id wrapped around.
WideIdsRejected ==
    phase = "built"
    => /\ \A d \in LiveWithKeywords : d.id \in 0..MaxUint32
       /\ IndexIds \subseteq {d.id : d \in LiveWithKeywords}

\* The ids of the records Build kept in the builder.
KeptIds == {docs[i].id : i \in 1..Len(docs)}

\* C26: the walk of Build keeps the first record of every id that is not a
\* tombstone, whatever the id, -1 included: the records kept are those of
\* the ids whose last call is an Add.
FirstRecordOfEveryIdKept ==
    phase = "built" => KeptIds = {d.id : d \in live}

\* The postings of the documents Build kept whose keyword is one of the
\* words first..last (0-based) of the index: <<document, keyword>> positions.
PostingsOfWords(first, last) ==
    {p \in UNION {{<<i, j>> : j \in 1..Len(docs[i].words)} : i \in 1..Len(docs)} :
        \E k \in first..last : index.words[k + 1] = docs[p[1]].words[p[2]]}

\* C22: in every built index with blocks, the word-id ranges of the blocks
\* are non-empty, start at 0, follow one another without gap or overlap and
\* end at the last word; the wboundary of a block holds the words at its
\* first and last word-id; and the length of a block is the number of
\* postings of the words of its range.
BlocksPartitionWords ==
    (phase = "built" /\ Len(index.blocks) > 0)
    => LET blocks == index.blocks
           n == Len(blocks)
       IN /\ blocks[1].boundary[1] = 0
          /\ blocks[n].boundary[2] = Len(index.words) - 1
          /\ \A i \in 1..(n - 1) :
                 blocks[i + 1].boundary[1] = blocks[i].boundary[2] + 1
          /\ \A i \in 1..n :
                 /\ blocks[i].boundary[1] <= blocks[i].boundary[2]
                 /\ blocks[i].wboundary =
                        <<index.words[blocks[i].boundary[1] + 1],
                          index.words[blocks[i].boundary[2] + 1]>>
                 /\ blocks[i].length =
                        Cardinality(PostingsOfWords(blocks[i].boundary[1],
                                                    blocks[i].boundary[2]))
                 /\ Len(BlockIds(blocks[i])) = blocks[i].length

\* An index of two blocks or more, one of them of two words or more, was
\* built.
BlocksPartitionWordsReached ==
    /\ phase = "built"
    /\ Len(index.blocks) >= 2
    /\ \E i \in 1..Len(index.blocks) :
           index.blocks[i].boundary[1] < index.blocks[i].boundary[2]

\* The depth createBlocks chose for the index built from the documents the
\* builder kept.
ChosenDepth ==
    LET posts == createPostings(docs)
    IN blockDepth(blockSizeOf(Len(posts)), index.words,
                  wordFreqs(index.words, posts), charAvg(index.words))

\* The words a and b have the same first k bytes.
SharePrefix(a, b, k) ==
    Len(a) >= k /\ Len(b) >= k /\ SubSeq(a, 1, k) = SubSeq(b, 1, k)

\* C23: in every built index with blocks, made at depth d, the last word of
\* a block and the first word of the block after it do not have the same
\* first d + 1 bytes.
BoundariesRespectPrefixes ==
    (phase = "built" /\ Len(index.blocks) > 0)
    => \A i \in 1..(Len(index.blocks) - 1) :
           ~SharePrefix(index.words[index.blocks[i].boundary[2] + 1],
                        index.words[index.blocks[i + 1].boundary[1] + 1],
                        ChosenDepth + 1)

\* An index of several blocks made at depth 1 was built: words of adjacent
\* blocks share their first byte.
BoundariesRespectPrefixesReached ==
    /\ phase = "built"
    /\ Len(index.blocks) >= 2
    /\ ChosenDepth >= 1
    /\ \E i \in 1..(Len(index.blocks) - 1) :
           SharePrefix(index.words[index.blocks[i].boundary[2] + 1],
                       index.words[index.blocks[i + 1].boundary[1] + 1], 1)

\* The ranks of the records Build kept are distinct values of 0..count - 1.
RanksNormalized ==
    /\ \A i \in 1..Len(docs) : docs[i].rank \in 0..(count - 1)
    /\ \A i, j \in 1..Len(docs) : i # j => docs[i].rank # docs[j].rank

\* Of two records Build kept, the one of smaller caller rank has the smaller
\* rank.
RanksKeepOrder ==
    \A i, j \in 1..Len(docs) :
        CallerRank(docs[i].id) < CallerRank(docs[j].id) => docs[i].rank < docs[j].rank

CompletionsMatchPostings ==
    (phase = "built" /\ Len(queries) > 0)
    => IF Len(result.results) > 0
       THEN /\ result.wrange # NilRange
            /\ LET cs == completionsOf(result)
               IN /\ Len(cs) = result.wrange[2] - result.wrange[1] + 1
                  /\ \A i \in 1..Len(cs) :
                         /\ cs[i].word = result.wrange[1] + i - 1
                         /\ cs[i].hits > 0
                            <=> \E k \in 1..Len(result.results) :
                                    result.results[k].word = cs[i].word
       ELSE Completions(result) = <<>>

\* The Result after the Search calls qs on a new Result, one after another,
\* with no other call between them.
SearchesAlone(qs) ==
    LET f[k \in 0..Len(qs)] ==
            IF k = 0 THEN EmptyResult ELSE Search(index, qs[k], f[k - 1]).r
    IN f[Len(qs)]

\* C28: whatever views were called and however often, the Result is the
\* one the Search calls alone leave (query, posting sequence, word range,
\* completion list and its buffer), so the next Search returns what it
\* returns without the views; and the last view called since the last
\* Search yielded what it yields on that Result.
ViewsLeaveResult ==
    phase = "built"
    => /\ result = SearchesAlone(queries)
       /\ (call.fn = "view" /\ call.at = Len(queries))
          => call.out = view(SearchesAlone(queries), call.view, call.k).out

\* Completions was called between two Search calls, on a Result whose
\* completions were not in the order of their hits, and the second Search
\* left postings.
ViewsLeaveResultReached ==
    /\ phase = "built"
    /\ call.fn = "view"
    /\ call.view = "Completions"
    /\ call.at = 1
    /\ Len(queries) = 2
    /\ Len(call.out) >= 2
    /\ call.out[1].Word # SearchesAlone(SubSeq(queries, 1, 1)).words[
                               completionsOf(SearchesAlone(SubSeq(queries, 1, 1)))[1].word + 1]
    /\ Len(result.results) > 0

\* The first tokens calcLen is called with: "", "a", "ab", "abc" (longer
\* than the charfreq of the indexes built) and "z".
CalcTokens == { <<>>, <<97>>, <<97, 98>>, <<97, 98, 99>>, <<122>> }

\* calcLen of the token is at most the number of postings of the index.
CalcLenWithin(token) == calcLen(token, index.charfreq) <= Len(indexPostings(index))

\* C29: in every built index with blocks, the capacity calcLen gives for a
\* first token, the empty string and tokens longer than the charfreq width
\* included, is at most the number of postings of the index.
CalcLenWithinPostings ==
    (phase = "built" /\ Len(index.blocks) > 0)
    => \A token \in CalcTokens : CalcLenWithin(token)

\* C30: when every document whose last call is an Add has a keyword or
\* more, the empty string included, and there is such a document, Build
\* returns: it does not stop at an index out of range.
BuildCompletes ==
    (live # {} /\ \A d \in live : Len(d.keywords) > 0) => phase # "buildpanic"

====
